---- MODULE Spec2Model ----
(***************************************************************************)
(* Model of the syscall recording core of rr (src/src/record_syscall.cc): *)
(* TaskSyscallState (parameter registration, done_preparing,              *)
(* process_syscall_results), ParamSize, the per-syscall preparer          *)
(* rec_prepare_syscall_arch, the exit hook rec_process_syscall_arch and   *)
(* the restart hook rec_prepare_restart_syscall_arch, for one tracee.     *)
(*                                                                         *)
(* Tracee memory is an array of cells.  One cell holds one scalar of the  *)
(* tracee ABI (a pointer, a size_t, a socklen_t, a data byte); sizes are  *)
(* counted in cells.  Machine words are scaled down: size_t/uintptr_t     *)
(* arithmetic is modulo Mod64, 32-bit reads are modulo Mod32.             *)
(***************************************************************************)
EXTENDS Integers, Sequences, FiniteSets, TLC

(* ---------------------------------------------------------------------- *)
(* Machine words                                                           *)
(* ---------------------------------------------------------------------- *)
Null == 0
\* range of size_t / uintptr_t / uint64_t (scaled)
Mod64 == 2^12
\* range of uint32_t (scaled)
Mod32 == 2^10
\* size_t(-1)
SizeMax == Mod64 - 1
\* conversion of a size_t / uintptr_t to ssize_t / intptr_t
ToSigned(x) == IF x >= Mod64 \div 2 THEN x - Mod64 ELSE x
\* the architectures of a tracee
X86 == "X86"
X64 == "X64"
Archs == {X86, X64}
\* range of a tracee register
RegMod(arch) == IF arch = X86 THEN Mod32 ELSE Mod64
\* sizeof(Arch::unsigned_word), sizeof(Arch::size_t), sizeof(Arch::ssize_t)
WordSize(arch) == IF arch = X86 THEN 4 ELSE 8
\* Registers::syscall_result_signed(), argN_signed()
RegSigned(arch, x) == IF x >= RegMod(arch) \div 2 THEN x - RegMod(arch) ELSE x
\* a register holding the negative value -e
Neg(arch, e) == RegMod(arch) - e
Min(a, b) == IF a <= b THEN a ELSE b

\* errno values
ENOENT == 2
EINTR == 4
EBADF == 9
EINVAL == 22
ENOSYS == 38
ERESTARTSYS == 512

(* ---------------------------------------------------------------------- *)
(* Tracee address space                                                    *)
(* ---------------------------------------------------------------------- *)
\* cells 0 .. NullPage - 1 are the unmapped page at address 0; the tracee's
\* mappings end at MemTop
NullPage == 8
\* the tasks of the recorded thread group; they share the address space
Tids == 1..2
\* t->scratch_ptr and t->scratch_size as installed by init_scratch_memory
\* for the first task
ScratchPtr == 72
ScratchSize == 48
InScratch(a) == a >= ScratchPtr /\ a < ScratchPtr + ScratchSize
\* one scratch mapping for all tasks (a faulty variant: init_scratch_memory
\* hands every task the same region)
scratch_ptr_shared(tid) == ScratchPtr
\* t->scratch_ptr of task tid: init_scratch_memory maps a region of its own
\* for every task
scratch_ptr(tid) == ScratchPtr + (tid - 1) * ScratchSize
MemTop == ScratchPtr + Cardinality(Tids) * ScratchSize
Addr == 0 .. (MemTop - 1)
Mapped(a) == a \in NullPage .. (MemTop - 1)
MappedRange(a, n) == \A x \in a .. (a + n - 1) : Mapped(x)

\* ArgMode; IN is spelled IN_ONLY (IN is a reserved word)
IN_ONLY == "IN"
OUT == "OUT"
IN_OUT == "IN_OUT"
IN_OUT_NO_SCRATCH == "IN_OUT_NO_SCRATCH"
\* Switchable
ALLOW_SWITCH == "ALLOW_SWITCH"
PREVENT_SWITCH == "PREVENT_SWITCH"
\* value of a Switchable member that was never assigned
UNSET_SWITCH == "UNSET"

(* ---------------------------------------------------------------------- *)
(* ParamSize                                                               *)
(* ---------------------------------------------------------------------- *)
\* ParamSize(size_t max_size): read_size is not initialised and never read
ParamSize(max_size) ==
  [max_size |-> max_size, mem_ptr |-> Null, read_size |-> 0, from_syscall |-> FALSE]

\* ParamSize::from_initialized_mem<T>(t, p), T of read_size bytes; val is
\* t->read_mem(p) (read by the caller when p is not null)
from_initialized_mem(p, read_size, val) ==
  [max_size |-> IF p = Null THEN 0 ELSE val, mem_ptr |-> p,
   read_size |-> read_size, from_syscall |-> FALSE]

\* ParamSize::from_mem<T>(p)
from_mem(p, read_size) ==
  [max_size |-> SizeMax, mem_ptr |-> p, read_size |-> read_size, from_syscall |-> FALSE]

\* ParamSize::from_syscall_result<T>(max_size)
from_syscall_result(read_size, max_size) ==
  [max_size |-> max_size, mem_ptr |-> Null, read_size |-> read_size, from_syscall |-> TRUE]

\* ParamSize::limit_size
limit_size(size, max) == [size EXCEPT !.max_size = Min(size.max_size, max)]

\* ParamSize::is_same_source
is_same_source(a, other) ==
  /\ \/ (a.mem_ptr # Null /\ other.mem_ptr = a.mem_ptr)
     \/ (a.from_syscall /\ other.from_syscall)
  /\ a.read_size = other.read_size

\* the value of an integer of read_size bytes
Truncate(v, read_size) == IF read_size = 4 THEN v % Mod32 ELSE v % Mod64

(* ---------------------------------------------------------------------- *)
(* TaskSyscallState                                                        *)
(* ---------------------------------------------------------------------- *)
\* TaskSyscallState(): switchable is not initialised
NewSyscallState ==
  [param_list |-> << >>,
   scratch |-> Null,
   expect_errno |-> 0,
   switchable |-> UNSET_SWITCH,
   preparation_done |-> FALSE,
   scratch_enabled |-> FALSE,
   record_page_below_stack_ptr |-> FALSE,
   has_entry_registers |-> FALSE,
   syscall_entry_registers |-> [i \in 1..6 |-> 0],
   exec_saved_event |-> << >>]

\* init without the preparation_done test (a faulty variant: a second run
\* of the preparer resets the scratch cursor)
init_unguarded(st, t_scratch_ptr) == [st EXCEPT !.scratch = t_scratch_ptr]

\* TaskSyscallState::init: a state already prepared keeps its cursor
init(st, t_scratch_ptr) ==
  IF st.preparation_done THEN st ELSE [st EXCEPT !.scratch = t_scratch_ptr]

\* align_scratch(&scratch, 8)
Align == 8
align_scratch(s) ==
  LET up == (s + Align - 1) % Mod64 IN up - (up % Align)

(* A context k carries what a hook reads and writes: the TaskSyscallState, *)
(* the task's registers, the tracee memory, the memory records written to *)
(* the trace, and ok, which is FALSE once an ASSERT/assert/FATAL fired.    *)
Abort(k) == [k EXCEPT !.ok = FALSE]

\* a MemoryParam that is given a scratch address and its pointer location
\* whatever its mode (a faulty variant: IN_OUT_NO_SCRATCH is redirected)
MemoryParam_redirected(dest, scratch, size, mode, ptr_in_reg, ptr_in_memory) ==
  [dest |-> dest, scratch |-> scratch, num_bytes |-> size,
   ptr_in_memory |-> ptr_in_memory, ptr_in_reg |-> ptr_in_reg, mode |-> mode]

\* the MemoryParam that reg_parameter / mem_ptr_parameter build
MemoryParam(dest, scratch, size, mode, ptr_in_reg, ptr_in_memory) ==
  [dest |-> dest,
   scratch |-> IF mode # IN_OUT_NO_SCRATCH THEN scratch ELSE Null,
   num_bytes |-> size,
   ptr_in_memory |-> IF mode # IN_OUT_NO_SCRATCH THEN ptr_in_memory ELSE Null,
   ptr_in_reg |-> IF mode # IN_OUT_NO_SCRATCH THEN ptr_in_reg ELSE 0,
   mode |-> mode]

\* the scratch cursor after a registration
bump_scratch(scratch, size, mode) ==
  IF mode # IN_OUT_NO_SCRATCH
  THEN align_scratch((scratch + size.max_size) % Mod64)
  ELSE scratch

\* reg_parameter without the test for a null pointer (a faulty variant: a
\* null argument is registered like any other)
reg_parameter_null_appended(k, arg, size, mode) ==
  IF ~k.ok \/ k.st.preparation_done THEN k
  ELSE [k EXCEPT
         !.st.param_list =
            Append(@, MemoryParam(k.regs.arg[arg], k.st.scratch, size, mode, arg, Null)),
         !.st.scratch = bump_scratch(@, size, mode)]

\* TaskSyscallState::reg_parameter(arg, size, mode)
reg_parameter(k, arg, size, mode) ==
  IF ~k.ok \/ k.st.preparation_done THEN k
  ELSE LET dest == k.regs.arg[arg] IN
       IF dest = Null THEN k
       ELSE [k EXCEPT
              !.st.param_list =
                 Append(@, MemoryParam(dest, k.st.scratch, size, mode, arg, Null)),
              !.st.scratch = bump_scratch(@, size, mode)]

\* the remote_ptr reg_parameter returns
reg_parameter_ret(k, arg) ==
  IF ~k.ok \/ k.st.preparation_done THEN Null ELSE k.regs.arg[arg]

\* TaskSyscallState::mem_ptr_parameter(addr_of_buf_ptr, size, mode);
\* get_remote_ptr reads the tracee, which fails on an unmapped address
mem_ptr_parameter(k, addr_of_buf_ptr, size, mode) ==
  IF ~k.ok \/ k.st.preparation_done THEN k
  ELSE IF ~Mapped(addr_of_buf_ptr) THEN Abort(k)
  ELSE LET dest == k.mem[addr_of_buf_ptr] IN
       IF dest = Null THEN k
       ELSE [k EXCEPT
              !.st.param_list =
                 Append(@, MemoryParam(dest, k.st.scratch, size, mode, 0,
                                       addr_of_buf_ptr)),
              !.st.scratch = bump_scratch(@, size, mode)]

\* the remote_ptr mem_ptr_parameter returns
mem_ptr_parameter_ret(k, addr_of_buf_ptr) ==
  IF ~k.ok \/ k.st.preparation_done \/ ~Mapped(addr_of_buf_ptr) THEN Null
  ELSE k.mem[addr_of_buf_ptr]

\* param contains ptr: dest <= ptr < dest + max_size (remote_ptr arithmetic)
ParamContains(param, ptr) ==
  param.dest <= ptr /\ ptr < (param.dest + param.num_bytes.max_size) % Mod64

\* TaskSyscallState::relocate_pointer_to_scratch: the indices of the
\* parameters whose buffer contains ptr (num_relocations is their count)
Relocations(param_list, ptr) ==
  {i \in 1..Len(param_list) : ParamContains(param_list[i], ptr)}

\* relocate_ok that accepts several matches (a faulty variant: a pointer
\* in overlapping buffers is relocated into one of them)
relocate_ok_overlap(param_list, ptr) == Cardinality(Relocations(param_list, ptr)) >= 1

relocate_ok(param_list, ptr) == Cardinality(Relocations(param_list, ptr)) = 1

relocate_pointer_to_scratch(param_list, ptr) ==
  LET i == CHOOSE j \in Relocations(param_list, ptr) : TRUE IN
  (param_list[i].scratch + (ptr - param_list[i].dest)) % Mod64

\* Task::remote_memcpy(dst, src, n)
remote_memcpy(mem, dst, src, n) ==
  [a \in Addr |-> IF a >= dst /\ a < dst + n THEN mem[src + (a - dst)] ELSE mem[a]]

\* copy_params_to_scratch without the copies (a faulty variant: scratch keeps
\* its stale bytes)
copy_params_skipped(k, i) == k

\* done_preparing, step 1: copy IN / IN_OUT parameters to their scratch areas
RECURSIVE copy_params_to_scratch(_, _)
copy_params_to_scratch(k, i) ==
  IF ~k.ok \/ i > Len(k.st.param_list) THEN k
  ELSE LET param == k.st.param_list[i]
           n == param.num_bytes.max_size IN
       IF ~(n < SizeMax) THEN Abort(k)
       ELSE IF param.mode \in {IN_OUT, IN_ONLY}
       THEN IF MappedRange(param.scratch, n) /\ MappedRange(param.dest, n)
            THEN copy_params_to_scratch(
                   [k EXCEPT !.mem = remote_memcpy(@, param.scratch, param.dest, n)],
                   i + 1)
            ELSE Abort(k)
       ELSE copy_params_to_scratch(k, i + 1)

\* done_preparing, step 2, for one parameter: the register (in the local
\* copy r, kept in k.regs until set_regs)
relocate_reg(k, param) ==
  IF param.ptr_in_reg # 0
  THEN [k EXCEPT !.regs.arg[param.ptr_in_reg] = param.scratch]
  ELSE k

\* relocate_mem without the store (a faulty variant: the scratch copy keeps
\* the pointer to the original buffer)
relocate_mem_skipped(k, param) == k

\* the in-memory pointer, at its place in the scratch copy
relocate_mem(k, param) ==
  IF ~k.ok \/ param.ptr_in_memory = Null THEN k
  ELSE IF ~relocate_ok(k.st.param_list, param.ptr_in_memory) THEN Abort(k)
  ELSE IF ~Mapped(relocate_pointer_to_scratch(k.st.param_list, param.ptr_in_memory))
  THEN Abort(k)
  ELSE [k EXCEPT !.mem[relocate_pointer_to_scratch(k.st.param_list,
                                                    param.ptr_in_memory)] = param.scratch]

\* the location of the dynamic size
relocate_size(k, i) ==
  IF ~k.ok \/ k.st.param_list[i].num_bytes.mem_ptr = Null THEN k
  ELSE IF ~relocate_ok(k.st.param_list, k.st.param_list[i].num_bytes.mem_ptr) THEN Abort(k)
  ELSE [k EXCEPT !.st.param_list[i].num_bytes.mem_ptr =
          relocate_pointer_to_scratch(k.st.param_list, @)]

\* done_preparing, step 2: point registers and in-memory pointers to the
\* scratch areas
RECURSIVE relocate_params(_, _)
relocate_params(k, i) ==
  IF ~k.ok \/ i > Len(k.st.param_list) THEN k
  ELSE relocate_params(
         relocate_size(
           relocate_mem(relocate_reg(k, k.st.param_list[i]), k.st.param_list[i]), i),
         i + 1)

\* scratch - t->scratch_ptr as ssize_t
scratch_num_bytes(k) == ToSigned((k.st.scratch - k.scratch_ptr) % Mod64)

\* the Switchable done_preparing decides on for the hint sw
decide_switchable(k, sw) ==
  IF sw = ALLOW_SWITCH /\ scratch_num_bytes(k) > ScratchSize THEN PREVENT_SWITCH ELSE sw

\* done_preparing that enables scratch whenever a parameter is registered
\* (a faulty variant: PREVENT_SWITCH no longer keeps the tracee untouched)
done_preparing_always(k, sw) ==
  IF ~k.ok \/ k.st.preparation_done THEN k
  ELSE IF ~(scratch_num_bytes(k) >= 0) THEN Abort([k EXCEPT !.st.preparation_done = TRUE])
  ELSE IF k.st.param_list = << >>
  THEN [k EXCEPT !.st.preparation_done = TRUE,
                 !.st.switchable = decide_switchable(k, sw)]
  ELSE relocate_params(
         copy_params_to_scratch(
           [k EXCEPT !.st.preparation_done = TRUE,
                     !.st.switchable = decide_switchable(k, sw),
                     !.st.scratch_enabled = TRUE], 1), 1)

\* TaskSyscallState::done_preparing(sw); it returns st.switchable
done_preparing(k, sw) ==
  IF ~k.ok \/ k.st.preparation_done THEN k
  ELSE IF ~(scratch_num_bytes(k) >= 0) THEN Abort([k EXCEPT !.st.preparation_done = TRUE])
  ELSE IF decide_switchable(k, sw) = PREVENT_SWITCH \/ k.st.param_list = << >>
  THEN [k EXCEPT !.st.preparation_done = TRUE,
                 !.st.switchable = decide_switchable(k, sw)]
  ELSE relocate_params(
         copy_params_to_scratch(
           [k EXCEPT !.st.preparation_done = TRUE,
                     !.st.switchable = decide_switchable(k, sw),
                     !.st.scratch_enabled = TRUE], 1), 1)

(* ---------------------------------------------------------------------- *)
(* ParamSize::eval and the finalizer                                       *)
(* ---------------------------------------------------------------------- *)
\* ParamSize::eval, the mem_ptr part: e is [ok, size] so far; ok turns
\* FALSE when an ASSERT fires or the read of mem_ptr fails
eval_mem(size, k, already_consumed, e) ==
  IF size.mem_ptr = Null THEN e
  ELSE IF size.read_size \notin {4, 8} \/ ~Mapped(size.mem_ptr)
  THEN [ok |-> FALSE, size |-> e.size]
  ELSE IF ~(already_consumed <= Truncate(k.mem[size.mem_ptr], size.read_size))
  THEN [ok |-> FALSE, size |-> e.size]
  ELSE [ok |-> e.ok,
        size |-> Min(e.size,
                     Truncate(k.mem[size.mem_ptr], size.read_size) - already_consumed)]

\* the from_syscall part without the subtraction (a faulty variant: what
\* earlier parameters consumed of the syscall result is not taken off)
eval_syscall_whole(size, k, already_consumed, e) ==
  IF ~size.from_syscall THEN e
  ELSE IF size.read_size \notin {4, 8} THEN [ok |-> FALSE, size |-> e.size]
  ELSE IF ~(already_consumed <= Truncate(k.regs.result, size.read_size))
  THEN [ok |-> FALSE, size |-> e.size]
  ELSE [ok |-> e.ok, size |-> Min(e.size, Truncate(k.regs.result, size.read_size))]

\* ParamSize::eval, the from_syscall part
eval_syscall(size, k, already_consumed, e) ==
  IF ~size.from_syscall THEN e
  ELSE IF size.read_size \notin {4, 8} THEN [ok |-> FALSE, size |-> e.size]
  ELSE IF ~(already_consumed <= Truncate(k.regs.result, size.read_size))
  THEN [ok |-> FALSE, size |-> e.size]
  ELSE [ok |-> e.ok,
        size |-> Min(e.size, Truncate(k.regs.result, size.read_size) - already_consumed)]

\* ParamSize::eval, the final ASSERT(s < size_t(-1))
eval_check(e) == [ok |-> e.ok /\ e.size < SizeMax, size |-> e.size]

\* ParamSize::eval(t, already_consumed): [ok, size]
eval(size, k, already_consumed) ==
  eval_check(
    eval_syscall(size, k, already_consumed,
      eval_mem(size, k, already_consumed, [ok |-> TRUE, size |-> size.max_size])))

\* SumSameSource that finds nothing consumed (a faulty variant: every member
\* of a group is given the whole total)
SumNothing(param_list, actual_sizes, i, j) == 0

RECURSIVE SumSameSource(_, _, _, _)
\* the loop of eval_param_size: the sizes given to the parameters j < i
\* (from index j on) that share the source of parameter i
SumSameSource(param_list, actual_sizes, i, j) ==
  IF j >= i THEN 0
  ELSE (IF is_same_source(param_list[j].num_bytes, param_list[i].num_bytes)
        THEN actual_sizes[j] ELSE 0)
       + SumSameSource(param_list, actual_sizes, i, j + 1)

\* actual_sizes.push_back(e.size), after eval's ASSERTs
push_size(k, e) == IF e.ok THEN [k EXCEPT !.sizes = Append(@, e.size)] ELSE Abort(k)

\* TaskSyscallState::eval_param_size(i, actual_sizes)
eval_param_size(k, i) ==
  push_size(k, eval(k.st.param_list[i].num_bytes, k,
                    SumSameSource(k.st.param_list, k.sizes, i, 1) % Mod64))

\* the bytes of a memory image at addr .. addr + n - 1
Bytes(mem, addr, n) == [j \in 1..n |-> mem[addr + j - 1]]

\* Task::write_bytes_helper(addr, n, d): d is a sequence of n bytes
write_bytes_helper(k, addr, n, d) ==
  IF ~MappedRange(addr, n) THEN Abort(k)
  ELSE [k EXCEPT !.mem = [a \in Addr |->
          IF a >= addr /\ a < addr + n THEN d[a - addr + 1] ELSE @[a]]]

\* Task::record_local(addr, n, d): a raw-memory record of d for addr
record_local(k, addr, n, d) ==
  [k EXCEPT !.trace = Append(@, [addr |-> addr, data |-> d])]

\* Task::record_remote(addr, n): a raw-memory record of the tracee's bytes
record_remote(k, addr, n) ==
  IF ~MappedRange(addr, n) THEN Abort(k)
  ELSE record_local(k, addr, n, Bytes(k.mem, addr, n))

\* set_remote_ptr(t, addr, value)
set_remote_ptr(k, addr, value) ==
  IF ~Mapped(addr) THEN Abort(k) ELSE [k EXCEPT !.mem[addr] = value]

\* the write-back of the whole scratch area (a faulty variant: max_size
\* bytes reach dest where the record holds the evaluated size)
write_back_param_whole(k, data, write_back, i) ==
  IF ~k.ok THEN k
  ELSE IF write_back /\ k.st.param_list[i].mode \in {IN_OUT, OUT}
  THEN write_bytes_helper(k, k.st.param_list[i].dest,
                          k.st.param_list[i].num_bytes.max_size,
                          Bytes(data, k.st.param_list[i].scratch,
                                k.st.param_list[i].num_bytes.max_size))
  ELSE k

\* process_syscall_results, scratch enabled, step 1 for parameter i, whose
\* size has been pushed: the write-back from data
write_back_param(k, data, write_back, i) ==
  IF ~k.ok THEN k
  ELSE IF write_back /\ k.st.param_list[i].mode \in {IN_OUT, OUT}
  THEN write_bytes_helper(k, k.st.param_list[i].dest, k.sizes[i],
                          Bytes(data, k.st.param_list[i].scratch, k.sizes[i]))
  ELSE k

\* step 1: sizes and write-back from data, the copy of the scratch region
\* read at the start
RECURSIVE write_back_params(_, _, _, _)
write_back_params(k, data, write_back, i) ==
  IF ~k.ok \/ i > Len(k.st.param_list) THEN k
  ELSE write_back_params(write_back_param(eval_param_size(k, i), data, write_back, i),
                         data, write_back, i + 1)

\* step 2 for one parameter: the register (in the local copy r, kept in
\* k.regs) and the in-memory pointer
restore_reg(k, param) ==
  IF param.ptr_in_reg # 0 THEN [k EXCEPT !.regs.arg[param.ptr_in_reg] = param.dest] ELSE k

\* restore_mem without the store (a faulty variant: the pointer slot keeps
\* what the write-back left there)
restore_mem_skipped(k, param) == k

restore_mem(k, param) ==
  IF k.ok /\ param.ptr_in_memory # Null
  THEN set_remote_ptr(k, param.ptr_in_memory, param.dest)
  ELSE k

\* step 2: restore the registers and the in-memory pointers
RECURSIVE restore_pointers(_, _)
restore_pointers(k, i) ==
  IF ~k.ok \/ i > Len(k.st.param_list) THEN k
  ELSE restore_pointers(
         restore_mem(restore_reg(k, k.st.param_list[i]), k.st.param_list[i]), i + 1)

\* memory_cleaned_up after step 2
memory_cleaned_up(param_list) ==
  \E i \in 1..Len(param_list) : param_list[i].ptr_in_memory # Null

\* record_param that never re-reads the tracee (a faulty variant: the bytes
\* recorded are those of the scratch snapshot even after pointer fix-ups)
record_param_from_snapshot(k, data, i) ==
  IF k.st.param_list[i].mode = IN_OUT_NO_SCRATCH
  THEN record_remote(k, k.st.param_list[i].dest, k.sizes[i])
  ELSE IF k.st.param_list[i].mode \in {IN_OUT, OUT}
  THEN record_local(k, k.st.param_list[i].dest, k.sizes[i],
                    Bytes(data, k.st.param_list[i].scratch, k.sizes[i]))
  ELSE k

\* step 3 for parameter i
record_param(k, data, i) ==
  IF k.st.param_list[i].mode = IN_OUT_NO_SCRATCH
  THEN record_remote(k, k.st.param_list[i].dest, k.sizes[i])
  ELSE IF k.st.param_list[i].mode \in {IN_OUT, OUT}
  THEN IF memory_cleaned_up(k.st.param_list)
       THEN record_remote(k, k.st.param_list[i].dest, k.sizes[i])
       ELSE record_local(k, k.st.param_list[i].dest, k.sizes[i],
                         Bytes(data, k.st.param_list[i].scratch, k.sizes[i]))
  ELSE k

\* step 3: record all output memory areas
RECURSIVE record_params(_, _, _)
record_params(k, data, i) ==
  IF ~k.ok \/ i > Len(k.st.param_list) THEN k
  ELSE record_params(record_param(k, data, i), data, i + 1)

\* the body of the loop when scratch is not enabled, the size being pushed
record_param_no_scratch(k, i) ==
  IF ~k.ok THEN k ELSE record_remote(k, k.st.param_list[i].dest, k.sizes[i])

\* the loop of process_syscall_results when scratch is not enabled
RECURSIVE record_params_no_scratch(_, _)
record_params_no_scratch(k, i) ==
  IF ~k.ok \/ i > Len(k.st.param_list) THEN k
  ELSE record_params_no_scratch(record_param_no_scratch(eval_param_size(k, i), i), i + 1)

\* page_size() (scaled)
PageSize == 2

\* the steps of process_syscall_results when scratch is enabled
process_scratch(k, data, write_back) ==
  IF write_back
  THEN record_params(restore_pointers(write_back_params(k, data, write_back, 1), 1),
                     data, 1)
  ELSE restore_pointers(write_back_params(k, data, write_back, 1), 1)

\* the end of process_syscall_results
record_page_below_stack(k) ==
  IF k.ok /\ k.st.record_page_below_stack_ptr
  THEN record_remote(k, (k.regs.sp - PageSize) % Mod64, PageSize)
  ELSE k

\* TaskSyscallState::process_syscall_results(write_back); write_back is
\* TRUE for WRITE_BACK and FALSE for NO_WRITE_BACK
process_syscall_results(k, write_back) ==
  IF ~k.ok THEN k
  ELSE IF ~k.st.preparation_done THEN Abort(k)
  ELSE IF k.st.scratch_enabled
  THEN IF ~MappedRange(k.scratch_ptr, (k.st.scratch - k.scratch_ptr) % Mod64)
       THEN Abort(k)
       ELSE record_page_below_stack(
              process_scratch(
                [k EXCEPT !.sizes = << >>,
                          !.finalized = IF write_back THEN "WRITE_BACK"
                                        ELSE "NO_WRITE_BACK"],
                k.mem, write_back))
  ELSE record_page_below_stack(
         record_params_no_scratch(
           [k EXCEPT !.sizes = << >>,
                     !.finalized = IF write_back THEN "WRITE_BACK" ELSE "NO_WRITE_BACK"],
           1))

(* ---------------------------------------------------------------------- *)
(* Tracee ABI: structure layouts (field offsets and sizes, in cells)       *)
(* ---------------------------------------------------------------------- *)
iovec == [iov_base |-> 0, iov_len |-> 1, size |-> 2]
msghdr == [msg_name |-> 0, msg_namelen |-> 1, msg_iov |-> 2, msg_iovlen |-> 3,
           msg_control |-> 4, msg_controllen |-> 5, msg_flags |-> 6, size |-> 7]
recv_args == [sockfd |-> 0, buf |-> 1, len |-> 2, flags |-> 3, size |-> 4]
accept_args == [sockfd |-> 0, addr |-> 1, addrlen |-> 2, size |-> 3]
\* sizeof(socklen_t), sizeof(int) in bytes, and the cells they occupy
socklen_t == [bytes |-> 4, size |-> 1]
int_t == [bytes |-> 4, size |-> 1]
timespec == [size |-> 2]
flock == [size |-> 4]
mmsghdr == [msg_hdr |-> 0, msg_len |-> msghdr.size, size |-> msghdr.size + 1]
\* the argument blocks of socketcall, one per sub-call
socketcall_args ==
  [getsockopt |-> [sockfd |-> 0, level |-> 1, optname |-> 2, optval |-> 3, optlen |-> 4,
                   size |-> 5],
   socketpair |-> [domain |-> 0, type |-> 1, protocol |-> 2, sv |-> 3, size |-> 4],
   getsockname |-> [sockfd |-> 0, addr |-> 1, addrlen |-> 2, size |-> 3],
   accept4 |-> [sockfd |-> 0, addr |-> 1, addrlen |-> 2, flags |-> 3, size |-> 4],
   recvfrom |-> [sockfd |-> 0, buf |-> 1, len |-> 2, flags |-> 3, src_addr |-> 4,
                 addrlen |-> 5, size |-> 6],
   recvmsg |-> [sockfd |-> 0, msg |-> 1, flags |-> 2, size |-> 3],
   recvmmsg |-> [sockfd |-> 0, msgvec |-> 1, vlen |-> 2, flags |-> 3, timeout |-> 4,
                 size |-> 5],
   sendmsg |-> [sockfd |-> 0, msg |-> 1, flags |-> 2, size |-> 3],
   sendmmsg |-> [sockfd |-> 0, msgvec |-> 1, vlen |-> 2, flags |-> 3, size |-> 4]]
\* the sizes, in cells, of the other structures the preparer registers
sizeof ==
  [flock64 |-> 6, f_owner_ex |-> 2, msqid64_ds |-> 4, msginfo |-> 4, dqblk |-> 4,
   dqinfo |-> 3, signed_long |-> 1, ethtool_cmd |-> 3, iwreq |-> 2, termios |-> 3,
   winsize |-> 2]
\* Arch::ifreq and Arch::ifconf, in cells
ifreq == [ifr_name |-> 0, ifru_data |-> 1, size |-> 2]
ifconf == [ifc_len |-> 0, ifcu_buf |-> 1, size |-> 2]
ipc_kludge_args == [msgbuf |-> 0, msgtyp |-> 1, size |-> 2]

\* bit tests on flag words: bit is a power of two
HasBit(x, bit) == (x \div bit) % 2 = 1
ClearBit(x, bit) == IF HasBit(x, bit) THEN x - bit ELSE x

\* flag bits and sub-commands (scaled to the modelled word)
CLONE_UNTRACED == 8
MSG_DONTWAIT == 64
FUTEX_CMD_MASK == 127
FUTEX_WAIT == 0
FUTEX_WAKE == 1
FUTEX_WAKE_OP == 5
FUTEX_CMP_REQUEUE == 4
FUTEX_WAIT_BITSET == 9
DUPFD == 0
GETFD == 1
SETFD == 2
GETFL == 3
SETFL == 4
GETLK == 5
SETLK == 6
SETLKW == 7
SETOWN == 8
SETSIG == 10
GETLK64 == 12
SETLK64 == 13
SETLKW64 == 14
SETOWN_EX == 15
GETOWN_EX == 16
SYS_SOCKET == 1
SYS_BIND == 2
SYS_CONNECT == 3
SYS_LISTEN == 4
SYS_ACCEPT == 5
SYS_GETSOCKNAME == 6
SYS_GETPEERNAME == 7
SYS_SOCKETPAIR == 8
SYS_SEND == 9
SYS_RECV == 10
SYS_SENDTO == 11
SYS_RECVFROM == 12
SYS_SHUTDOWN == 13
SYS_SETSOCKOPT == 14
SYS_GETSOCKOPT == 15
SYS_SENDMSG == 16
SYS_RECVMSG == 17
SYS_ACCEPT4 == 18
SYS_RECVMMSG == 19
SYS_SENDMMSG == 20
MSGSND == 11
MSGRCV == 12
MSGGET == 13
MSGCTL == 14
IPC_64 == 256
IPC_STAT == 2
IPC_INFO == 3
MSG_STAT == 11
MSG_INFO == 12
PR_GET_PDEATHSIG == 2
PR_GET_UNALIGN == 5
PR_GET_FPEMU == 9
PR_GET_FPEXC == 11
PR_SET_NAME == 15
PR_GET_NAME == 16
PR_GET_ENDIAN == 19
PR_SET_SECCOMP == 22
PR_GET_TSC == 25
\* the bytes of a task name
PrNameLen == 16
\* the quota commands, scaled with the word: in <sys/quota.h> a command is
\* 0x8000nn, SUBCMDMASK is 0x00ff and SUBCMDSHIFT is 8; here, as there,
\* every command is larger than SUBCMDMASK, and QCMD(cmd, type) is
\* cmd * 2^SUBCMDSHIFT + type
SUBCMDMASK == 15
SUBCMDSHIFT == 4
Q_SYNC == 33
Q_QUOTAON == 34
Q_QUOTAOFF == 35
Q_GETFMT == 36
Q_GETINFO == 37
Q_SETINFO == 38
Q_GETQUOTA == 39
Q_SETQUOTA == 40
STDOUT_FILENO == 1
STDERR_FILENO == 2

(* ---------------------------------------------------------------------- *)
(* is_stdio_fd: the kernel's kcmp(KCMP_FILE) over the file tables          *)
(* ---------------------------------------------------------------------- *)
\* kcmp(pid, tid, KCMP_FILE, idx1, idx2) for the tracer's fd idx1 and the
\* tracee's fd idx2: 0 (same open file), 1 (different), or -errno for a
\* result of -1 with that errno
kcmp(files, idx1, idx2) ==
  IF ~files.kcmp THEN -ENOSYS
  ELSE IF files.tracer[idx1] = "closed" \/ files.tracee[idx2] = "closed" THEN -EBADF
  ELSE IF files.tracer[idx1] = files.tracee[idx2] THEN 0
  ELSE 1

\* is_stdio_fd<Arch>(t, fd): [ok, val]; ok is FALSE when an ASSERT fires
is_stdio_fd(files, fd) ==
  LET r1 == kcmp(files, STDOUT_FILENO, fd)
      r2 == kcmp(files, STDERR_FILENO, fd)
  IN IF r1 = -ENOSYS
     THEN [ok |-> TRUE, val |-> fd = STDOUT_FILENO \/ fd = STDERR_FILENO]
     ELSE IF r1 = 0 THEN [ok |-> TRUE, val |-> TRUE]
     ELSE IF r1 = -EBADF THEN [ok |-> TRUE, val |-> FALSE]
     ELSE IF ~(r1 >= 0) THEN [ok |-> FALSE, val |-> FALSE]
     ELSE IF r2 = 0 THEN [ok |-> TRUE, val |-> TRUE]
     ELSE IF r2 = -EBADF THEN [ok |-> TRUE, val |-> FALSE]
     ELSE IF ~(r2 >= 0) THEN [ok |-> FALSE, val |-> FALSE]
     ELSE [ok |-> TRUE, val |-> FALSE]

(* ---------------------------------------------------------------------- *)
(* The preparer                                                            *)
(* ---------------------------------------------------------------------- *)
\* return sw from the preparer
Return(k, sw) == IF k.ok THEN [k EXCEPT !.sw = sw] ELSE k
\* return the Switchable done_preparing has stored
ReturnSwitchable(k) == IF k.ok THEN [k EXCEPT !.sw = k.st.switchable] ELSE k
\* return syscall_state.done_preparing(sw)
ReturnDone(k, sw) == ReturnSwitchable(done_preparing(k, sw))

\* Task::read_mem of n cells at addr succeeds
ReadOk(addr, n) == n = 0 \/ MappedRange(addr, n)
\* the recording stops unless the read of the tracee succeeded
AbortUnless(k, read_ok) == IF k.ok /\ ~read_ok THEN Abort(k) ELSE k
\* a cell of the tracee (0 where the read failed and the caller aborts)
Cell(k, addr) == IF Mapped(addr) THEN k.mem[addr] ELSE 0

\* ParamSize::from_initialized_mem(t, p) with its read of p
from_initialized_mem_at(k, p, bytes) ==
  from_initialized_mem(p, bytes, Truncate(Cell(k, p), bytes))
\* that read succeeds: p is null (no read) or mapped
InitializedMemOk(p) == p = Null \/ Mapped(p)

\* the loop of prepare_recvmsg and readv over the iovecs i .. n - 1
RECURSIVE reg_iovec_bases(_, _, _, _, _)
reg_iovec_bases(k, iovecsp, io_size, i, n) ==
  IF ~k.ok \/ i >= n THEN k
  ELSE reg_iovec_bases(
         mem_ptr_parameter(k, iovecsp + i * iovec.size + iovec.iov_base,
                           limit_size(io_size,
                                      Cell(k, iovecsp + i * iovec.size + iovec.iov_len)),
                           OUT),
         iovecsp, io_size, i + 1, n)

\* prepare_recvmsg<Arch>(t, syscall_state, msgp, io_size); no registration
\* changes tracee memory, so every read is one of the memory of k
prepare_recvmsg(k, arch, msgp, io_size) ==
  LET namelen_ptr == msgp + msghdr.msg_namelen
      controllen_ptr == msgp + msghdr.msg_controllen
      msg_iovlen == Cell(k, msgp + msghdr.msg_iovlen)
      iovecsp == mem_ptr_parameter_ret(k, msgp + msghdr.msg_iov)
  IN mem_ptr_parameter(
       AbortUnless(
         reg_iovec_bases(
           AbortUnless(
             mem_ptr_parameter(
               AbortUnless(
                 mem_ptr_parameter(
                   AbortUnless(k, InitializedMemOk(namelen_ptr)),
                   msgp + msghdr.msg_name,
                   from_initialized_mem_at(k, namelen_ptr, socklen_t.bytes), OUT),
                 ReadOk(msgp, msghdr.size)),
               msgp + msghdr.msg_iov,
               ParamSize((iovec.size * msg_iovlen) % Mod64), IN_ONLY),
             ReadOk(iovecsp, iovec.size * msg_iovlen)),
           iovecsp, io_size, 0, msg_iovlen),
         InitializedMemOk(controllen_ptr)),
       msgp + msghdr.msg_control,
       from_initialized_mem_at(k, controllen_ptr, WordSize(arch)), OUT)

\* prepare_socketcall<Arch>(t, syscall_state), case SYS_RECV
prepare_socketcall_recv(k, arch, argsp) ==
  mem_ptr_parameter(
    AbortUnless(reg_parameter(k, 2, ParamSize(recv_args.size), IN_ONLY),
                ReadOk(argsp, recv_args.size)),
    argsp + recv_args.buf,
    from_syscall_result(WordSize(arch), Cell(k, argsp + recv_args.len)),
    OUT)

\* case SYS_ACCEPT
prepare_socketcall_accept(k, arch, argsp, addrlen_ptr) ==
  mem_ptr_parameter(
    AbortUnless(
      mem_ptr_parameter(reg_parameter(k, 2, ParamSize(accept_args.size), IN_ONLY),
                        argsp + accept_args.addrlen, ParamSize(socklen_t.size), IN_OUT),
      InitializedMemOk(addrlen_ptr)),
    argsp + accept_args.addr,
    from_initialized_mem_at(k, addrlen_ptr, socklen_t.bytes), OUT)

\* prepare_recvmmsg<Arch>(t, syscall_state, mmsgp, vlen), from element i on
RECURSIVE prepare_recvmmsg(_, _, _, _, _)
prepare_recvmmsg(k, arch, mmsgp, i, vlen) ==
  IF ~k.ok \/ i >= vlen THEN k
  ELSE prepare_recvmmsg(
         prepare_recvmsg(k, arch, mmsgp + i * mmsghdr.size + mmsghdr.msg_hdr,
                         from_mem(mmsgp + i * mmsghdr.size + mmsghdr.msg_len,
                                  int_t.bytes)),
         arch, mmsgp, i + 1, vlen)

\* case SYS_GETSOCKOPT, SYS_GETPEERNAME, SYS_GETSOCKNAME, SYS_ACCEPT4: the
\* argument block of size cells holds the buffer pointer at offset addr and
\* the pointer to its length at offset addrlen; addrlen_ptr is what
\* mem_ptr_parameter_inferred returned
prepare_socketcall_sockaddr(k, argsp, size, addr, addrlen, addrlen_ptr) ==
  mem_ptr_parameter(
    AbortUnless(
      mem_ptr_parameter(reg_parameter(k, 2, ParamSize(size), IN_ONLY),
                        argsp + addrlen, ParamSize(socklen_t.size), IN_OUT),
      InitializedMemOk(addrlen_ptr)),
    argsp + addr,
    from_initialized_mem_at(k, addrlen_ptr, socklen_t.bytes), OUT)

\* case SYS_SOCKETPAIR
prepare_socketcall_socketpair(k, argsp) ==
  mem_ptr_parameter(reg_parameter(k, 2, ParamSize(socketcall_args.socketpair.size), IN_ONLY),
                    argsp + socketcall_args.socketpair.sv, ParamSize(2 * int_t.size), OUT)

\* case SYS_RECVFROM
prepare_socketcall_recvfrom(k, arch, argsp, addrlen_ptr) ==
  mem_ptr_parameter(
    AbortUnless(
      mem_ptr_parameter(
        mem_ptr_parameter(
          AbortUnless(
            reg_parameter(k, 2, ParamSize(socketcall_args.recvfrom.size), IN_ONLY),
            ReadOk(argsp, socketcall_args.recvfrom.size)),
          argsp + socketcall_args.recvfrom.buf,
          from_syscall_result(WordSize(arch),
                              Cell(k, argsp + socketcall_args.recvfrom.len)),
          OUT),
        argsp + socketcall_args.recvfrom.addrlen, ParamSize(socklen_t.size), IN_OUT),
      InitializedMemOk(addrlen_ptr)),
    argsp + socketcall_args.recvfrom.src_addr,
    from_initialized_mem_at(k, addrlen_ptr, socklen_t.bytes), OUT)

\* case SYS_RECVMSG
prepare_socketcall_recvmsg(k, arch, argsp) ==
  ReturnDone(
    AbortUnless(
      prepare_recvmsg(
        mem_ptr_parameter(
          reg_parameter(k, 2, ParamSize(socketcall_args.recvmsg.size), IN_ONLY),
          argsp + socketcall_args.recvmsg.msg, ParamSize(msghdr.size), IN_OUT),
        arch, mem_ptr_parameter_ret(k, argsp + socketcall_args.recvmsg.msg),
        from_syscall_result(WordSize(arch), SizeMax)),
      ReadOk(argsp, socketcall_args.recvmsg.size)),
    IF ~HasBit(Cell(k, argsp + socketcall_args.recvmsg.flags) % Mod32, MSG_DONTWAIT)
    THEN ALLOW_SWITCH ELSE PREVENT_SWITCH)

\* case SYS_RECVMMSG
prepare_socketcall_recvmmsg(k, arch, argsp) ==
  ReturnDone(
    prepare_recvmmsg(
      mem_ptr_parameter(
        AbortUnless(
          reg_parameter(k, 2, ParamSize(socketcall_args.recvmmsg.size), IN_ONLY),
          ReadOk(argsp, socketcall_args.recvmmsg.size)),
        argsp + socketcall_args.recvmmsg.msgvec,
        ParamSize((mmsghdr.size * (Cell(k, argsp + socketcall_args.recvmmsg.vlen) % Mod32))
                    % Mod64),
        IN_OUT),
      arch, mem_ptr_parameter_ret(k, argsp + socketcall_args.recvmmsg.msgvec), 0,
      Cell(k, argsp + socketcall_args.recvmmsg.vlen) % Mod32),
    IF ~HasBit(Cell(k, argsp + socketcall_args.recvmmsg.flags) % Mod32, MSG_DONTWAIT)
    THEN ALLOW_SWITCH ELSE PREVENT_SWITCH)

\* case SYS_SENDMSG: the argument block is read at arg2, nothing is registered
prepare_socketcall_sendmsg(k, arch) ==
  ReturnDone(
    AbortUnless(k, ReadOk(k.regs.arg[2], socketcall_args.sendmsg.size)),
    IF ~HasBit(Cell(k, k.regs.arg[2] + socketcall_args.sendmsg.flags) % Mod32, MSG_DONTWAIT)
    THEN ALLOW_SWITCH ELSE PREVENT_SWITCH)

\* case SYS_SENDMMSG
prepare_socketcall_sendmmsg(k, arch, argsp) ==
  ReturnDone(
    mem_ptr_parameter(
      AbortUnless(
        reg_parameter(k, 2, ParamSize(socketcall_args.sendmmsg.size), IN_ONLY),
        ReadOk(argsp, socketcall_args.sendmmsg.size)),
      argsp + socketcall_args.sendmmsg.msgvec,
      ParamSize((mmsghdr.size * (Cell(k, argsp + socketcall_args.sendmmsg.vlen) % Mod32))
                  % Mod64),
      IN_OUT),
    IF ~HasBit(Cell(k, argsp + socketcall_args.sendmmsg.flags) % Mod32, MSG_DONTWAIT)
    THEN ALLOW_SWITCH ELSE PREVENT_SWITCH)

\* prepare_socketcall<Arch>(t, syscall_state)
prepare_socketcall(k, arch) ==
  CASE RegSigned(arch, k.regs.arg[1])
         \in {SYS_SOCKET, SYS_CONNECT, SYS_BIND, SYS_LISTEN, SYS_SEND, SYS_SENDTO,
              SYS_SETSOCKOPT, SYS_SHUTDOWN} ->
         ReturnDone(k, PREVENT_SWITCH)
    [] RegSigned(arch, k.regs.arg[1]) = SYS_GETSOCKOPT ->
         ReturnDone(
           prepare_socketcall_sockaddr(
             k, reg_parameter_ret(k, 2), socketcall_args.getsockopt.size, socketcall_args.getsockopt.optval,
             socketcall_args.getsockopt.optlen,
             mem_ptr_parameter_ret(k, reg_parameter_ret(k, 2)
                                      + socketcall_args.getsockopt.optlen)),
           PREVENT_SWITCH)
    [] RegSigned(arch, k.regs.arg[1]) = SYS_SOCKETPAIR ->
         ReturnDone(prepare_socketcall_socketpair(k, reg_parameter_ret(k, 2)),
                    PREVENT_SWITCH)
    [] RegSigned(arch, k.regs.arg[1]) \in {SYS_GETPEERNAME, SYS_GETSOCKNAME} ->
         ReturnDone(
           prepare_socketcall_sockaddr(
             k, reg_parameter_ret(k, 2), socketcall_args.getsockname.size, socketcall_args.getsockname.addr,
             socketcall_args.getsockname.addrlen,
             mem_ptr_parameter_ret(k, reg_parameter_ret(k, 2)
                                      + socketcall_args.getsockname.addrlen)),
           PREVENT_SWITCH)
    [] RegSigned(arch, k.regs.arg[1]) = SYS_RECV ->
         ReturnDone(prepare_socketcall_recv(k, arch, reg_parameter_ret(k, 2)),
                    ALLOW_SWITCH)
    [] RegSigned(arch, k.regs.arg[1]) = SYS_ACCEPT ->
         ReturnDone(
           prepare_socketcall_accept(
             k, arch, reg_parameter_ret(k, 2),
             mem_ptr_parameter_ret(k, reg_parameter_ret(k, 2) + accept_args.addrlen)),
           ALLOW_SWITCH)
    [] RegSigned(arch, k.regs.arg[1]) = SYS_ACCEPT4 ->
         ReturnDone(
           prepare_socketcall_sockaddr(
             k, reg_parameter_ret(k, 2), socketcall_args.accept4.size, socketcall_args.accept4.addr,
             socketcall_args.accept4.addrlen,
             mem_ptr_parameter_ret(k, reg_parameter_ret(k, 2)
                                      + socketcall_args.accept4.addrlen)),
           ALLOW_SWITCH)
    [] RegSigned(arch, k.regs.arg[1]) = SYS_RECVFROM ->
         ReturnDone(
           prepare_socketcall_recvfrom(
             k, arch, reg_parameter_ret(k, 2),
             mem_ptr_parameter_ret(k, reg_parameter_ret(k, 2)
                                      + socketcall_args.recvfrom.addrlen)),
           ALLOW_SWITCH)
    [] RegSigned(arch, k.regs.arg[1]) = SYS_RECVMSG ->
         prepare_socketcall_recvmsg(k, arch, reg_parameter_ret(k, 2))
    [] RegSigned(arch, k.regs.arg[1]) = SYS_RECVMMSG ->
         prepare_socketcall_recvmmsg(k, arch, reg_parameter_ret(k, 2))
    [] RegSigned(arch, k.regs.arg[1]) = SYS_SENDMSG -> prepare_socketcall_sendmsg(k, arch)
    [] RegSigned(arch, k.regs.arg[1]) = SYS_SENDMMSG ->
         prepare_socketcall_sendmmsg(k, arch, reg_parameter_ret(k, 2))
    [] OTHER ->
         ReturnDone([k EXCEPT !.st.expect_errno = EINVAL], PREVENT_SWITCH)

\* prepare_deschedule<Arch>(t, syscall_state, syscallno)
prepare_deschedule(k, arch, syscallno, files) ==
  IF syscallno \in {"write", "writev"}
  THEN IF ~is_stdio_fd(files, RegSigned(arch, k.regs.arg[1])).ok THEN Abort(k)
       ELSE Return(k, IF is_stdio_fd(files, RegSigned(arch, k.regs.arg[1])).val
                      THEN PREVENT_SWITCH ELSE ALLOW_SWITCH)
  ELSE Return(k, ALLOW_SWITCH)

\* syscall numbers: names for the listed syscalls, "getpid" for a regular
\* syscall the preparer does not list, "unknown" for a number no hook lists,
\* "negative" for a syscall number below zero
SyscallNegative == "negative"

\* case Arch::clone
prepare_clone(k) ==
  Return([k EXCEPT !.st.has_entry_registers = TRUE,
                   !.st.syscall_entry_registers = k.regs.arg,
                   !.regs.arg[1] = ClearBit(@, CLONE_UNTRACED)],
         PREVENT_SWITCH)

\* case Arch::fcntl, Arch::fcntl64
prepare_fcntl(k, arch) ==
  CASE RegSigned(arch, k.regs.arg[2]) \in {DUPFD, GETFD, GETFL, SETFL, SETFD, SETLK, SETLK64,
                                           SETOWN, SETOWN_EX, SETSIG} ->
         ReturnDone(k, PREVENT_SWITCH)
    [] RegSigned(arch, k.regs.arg[2]) = GETLK ->
         ReturnDone(reg_parameter(k, 3, ParamSize(flock.size), IN_OUT), PREVENT_SWITCH)
    [] RegSigned(arch, k.regs.arg[2]) = GETLK64 ->
         ReturnDone(reg_parameter(k, 3, ParamSize(sizeof.flock64), IN_OUT), PREVENT_SWITCH)
    [] RegSigned(arch, k.regs.arg[2]) = GETOWN_EX ->
         ReturnDone(reg_parameter(k, 3, ParamSize(sizeof.f_owner_ex), OUT), PREVENT_SWITCH)
    [] RegSigned(arch, k.regs.arg[2]) \in {SETLKW, SETLKW64} -> ReturnDone(k, ALLOW_SWITCH)
    [] OTHER -> ReturnDone([k EXCEPT !.st.expect_errno = EINVAL], PREVENT_SWITCH)

\* case Arch::futex
prepare_futex(k, arch) ==
  CASE RegSigned(arch, k.regs.arg[2]) % (FUTEX_CMD_MASK + 1)
         \in {FUTEX_WAIT, FUTEX_WAIT_BITSET} ->
         ReturnDone(reg_parameter(k, 1, ParamSize(int_t.size), IN_OUT_NO_SCRATCH),
                    ALLOW_SWITCH)
    [] RegSigned(arch, k.regs.arg[2]) % (FUTEX_CMD_MASK + 1)
         \in {FUTEX_CMP_REQUEUE, FUTEX_WAKE_OP} ->
         ReturnDone(
           reg_parameter(reg_parameter(k, 1, ParamSize(int_t.size), IN_OUT_NO_SCRATCH),
                         5, ParamSize(int_t.size), IN_OUT_NO_SCRATCH),
           PREVENT_SWITCH)
    [] RegSigned(arch, k.regs.arg[2]) % (FUTEX_CMD_MASK + 1) = FUTEX_WAKE ->
         ReturnDone(reg_parameter(k, 1, ParamSize(int_t.size), IN_OUT_NO_SCRATCH),
                    PREVENT_SWITCH)
    [] OTHER -> ReturnDone([k EXCEPT !.st.expect_errno = EINVAL], PREVENT_SWITCH)

\* case Arch::recvfrom; addrlen_ptr is what reg_parameter<socklen_t>(6)
\* returned
prepare_recvfrom(k, arch, addrlen_ptr) ==
  ReturnDone(
    reg_parameter(
      AbortUnless(
        reg_parameter(
          reg_parameter(k, 2, from_syscall_result(WordSize(arch), k.regs.arg[3]), OUT),
          6, ParamSize(socklen_t.size), IN_OUT),
        InitializedMemOk(addrlen_ptr)),
      5, from_initialized_mem_at(k, addrlen_ptr, socklen_t.bytes), OUT),
    ALLOW_SWITCH)

\* case Arch::recvmsg
prepare_recvmsg_case(k, arch) ==
  ReturnDone(
    prepare_recvmsg(reg_parameter(k, 2, ParamSize(msghdr.size), IN_OUT), arch,
                    reg_parameter_ret(k, 2),
                    from_syscall_result(WordSize(arch), SizeMax)),
    IF ~HasBit(k.regs.arg[3] % Mod32, MSG_DONTWAIT) THEN ALLOW_SWITCH ELSE PREVENT_SWITCH)

\* case Arch::accept, Arch::accept4
prepare_accept(k, arch, addrlen_ptr) ==
  ReturnDone(
    reg_parameter(
      AbortUnless(reg_parameter(k, 3, ParamSize(socklen_t.size), IN_OUT),
                  InitializedMemOk(addrlen_ptr)),
      2, from_initialized_mem_at(k, addrlen_ptr, socklen_t.bytes), OUT),
    ALLOW_SWITCH)

\* case Arch::write, Arch::writev
prepare_write(k, arch, files) ==
  IF ~is_stdio_fd(files, RegSigned(arch, k.regs.arg[1])).ok THEN Abort(k)
  ELSE Return(k, IF is_stdio_fd(files, RegSigned(arch, k.regs.arg[1])).val
                 THEN PREVENT_SWITCH ELSE ALLOW_SWITCH)

\* case Arch::readv, Arch::preadv
prepare_readv(k, arch, iovcnt, iovecsp) ==
  ReturnDone(
    reg_iovec_bases(
      AbortUnless(
        reg_parameter(k, 2, ParamSize((iovec.size * iovcnt) % Mod64), IN_ONLY),
        ReadOk(iovecsp, iovec.size * iovcnt)),
      iovecsp, from_syscall_result(WordSize(arch), SizeMax), 0, iovcnt),
    ALLOW_SWITCH)

\* Task::read_c_str(addr): the length of the string at addr, -1 when it
\* runs into unmapped memory before a NUL
RECURSIVE c_str_len(_, _, _)
c_str_len(mem, addr, n) ==
  IF ~Mapped(addr + n) THEN -1
  ELSE IF mem[addr + n] = 0 THEN n
  ELSE c_str_len(mem, addr, n + 1)

\* Task::read_c_str(addr): the cells before the NUL
read_c_str(mem, addr) ==
  IF c_str_len(mem, addr, 0) < 0 THEN << >> ELSE Bytes(mem, addr, c_str_len(mem, addr, 0))

\* the argv loop of case Arch::execve: ok is FALSE when a read faults
RECURSIVE read_cmd_line(_, _, _)
read_cmd_line(mem, argv, cmd_line) ==
  IF ~Mapped(argv) THEN [ok |-> FALSE, cmd_line |-> cmd_line]
  ELSE IF mem[argv] = 0 THEN [ok |-> TRUE, cmd_line |-> cmd_line]
  ELSE IF c_str_len(mem, mem[argv], 0) < 0 THEN [ok |-> FALSE, cmd_line |-> cmd_line]
  ELSE read_cmd_line(mem, argv + 1, Append(cmd_line, read_c_str(mem, mem[argv])))

\* exec_file_supported(t->exec_file()): the i386 build rejects an
\* ELFCLASS64 image, the x86_64 build accepts every image
exec_file_supported(files) == files.exec_supported

\* case Arch::execve: the entry registers are saved once
save_entry_registers_once(k) ==
  IF k.st.has_entry_registers THEN k
  ELSE [k EXCEPT !.st.has_entry_registers = TRUE, !.st.syscall_entry_registers = k.regs.arg]

\* case Arch::execve: arg1 is advanced to the NUL of the path when the image
\* is not supported
block_exec(k, arch, files) ==
  IF exec_file_supported(files) THEN k
  ELSE [k EXCEPT !.regs.arg[1] =
                   (@ + Len(read_c_str(k.mem, k.regs.arg[1]))) % RegMod(arch)]

\* TraceTaskEvent(t->tid, raw_filename, cmd_line)
TraceTaskEvent(file_name, cmd_line) ==
  [type |-> "exec", file_name |-> file_name, cmd_line |-> cmd_line]

\* case Arch::execve
prepare_execve(k, arch, files) ==
  IF c_str_len(k.mem, k.regs.arg[1], 0) < 0 THEN Abort(save_entry_registers_once(k))
  ELSE IF ~read_cmd_line(k.mem, k.regs.arg[2], << >>).ok
  THEN Abort(block_exec(save_entry_registers_once(k), arch, files))
  ELSE Return(
    [block_exec(save_entry_registers_once(k), arch, files) EXCEPT
       !.st.exec_saved_event =
          <<TraceTaskEvent(read_c_str(k.mem, k.regs.arg[1]),
                           read_cmd_line(k.mem, k.regs.arg[2], << >>).cmd_line)>>],
    PREVENT_SWITCH)

\* case Arch::sched_setaffinity
prepare_sched_setaffinity(k, arch) ==
  Return([k EXCEPT !.st.has_entry_registers = TRUE,
                   !.st.syscall_entry_registers = k.regs.arg,
                   !.regs.arg[1] = Neg(arch, 1)],
         PREVENT_SWITCH)

\* prepare_msgctl<Arch>(t, syscall_state, cmd, buf_ptr_reg)
prepare_msgctl(k, cmd, buf_ptr_reg) ==
  CASE cmd \in {IPC_STAT, MSG_STAT} ->
         ReturnDone(reg_parameter(k, buf_ptr_reg, ParamSize(sizeof.msqid64_ds), OUT),
                    PREVENT_SWITCH)
    [] cmd \in {IPC_INFO, MSG_INFO} ->
         ReturnDone(reg_parameter(k, buf_ptr_reg, ParamSize(sizeof.msginfo), OUT),
                    PREVENT_SWITCH)
    [] OTHER -> ReturnDone(k, PREVENT_SWITCH)

\* case Arch::ipc
prepare_ipc(k, arch) ==
  CASE RegSigned(arch, k.regs.arg[1]) = MSGCTL ->
         prepare_msgctl(k, ClearBit(RegSigned(arch, k.regs.arg[3]) % Mod32, IPC_64), 5)
    [] RegSigned(arch, k.regs.arg[1]) = MSGGET -> ReturnDone(k, PREVENT_SWITCH)
    [] RegSigned(arch, k.regs.arg[1]) = MSGSND -> ReturnDone(k, ALLOW_SWITCH)
    [] RegSigned(arch, k.regs.arg[1]) = MSGRCV ->
         ReturnDone(
           mem_ptr_parameter(reg_parameter(k, 5, ParamSize(ipc_kludge_args.size), IN_ONLY),
                             reg_parameter_ret(k, 5) + ipc_kludge_args.msgbuf,
                             ParamSize((sizeof.signed_long + k.regs.arg[3]) % Mod64), OUT),
           ALLOW_SWITCH)
    [] OTHER -> ReturnDone([k EXCEPT !.st.expect_errno = EINVAL], PREVENT_SWITCH)

\* Task::update_prname(addr): the name is read from the tracee
update_prname(k, addr) == AbortUnless(k, ReadOk(addr, PrNameLen))

\* case Arch::prctl
prepare_prctl(k, arch) ==
  CASE RegSigned(arch, k.regs.arg[1])
         \in {PR_GET_ENDIAN, PR_GET_FPEMU, PR_GET_FPEXC, PR_GET_PDEATHSIG, PR_GET_TSC,
              PR_GET_UNALIGN} ->
         ReturnDone(reg_parameter(k, 2, ParamSize(int_t.size), OUT), PREVENT_SWITCH)
    [] RegSigned(arch, k.regs.arg[1]) = PR_GET_NAME ->
         ReturnDone(reg_parameter(k, 2, ParamSize(PrNameLen), OUT), PREVENT_SWITCH)
    [] RegSigned(arch, k.regs.arg[1]) = PR_SET_NAME ->
         ReturnDone(update_prname(k, k.regs.arg[2]), PREVENT_SWITCH)
    [] RegSigned(arch, k.regs.arg[1]) = PR_SET_SECCOMP -> ReturnDone(k, PREVENT_SWITCH)
    [] OTHER -> ReturnDone([k EXCEPT !.st.expect_errno = EINVAL], PREVENT_SWITCH)

(* ---------------------------------------------------------------------- *)
(* ioctl                                                                   *)
(* ---------------------------------------------------------------------- *)
\* an ioctl request is an int; its direction is its two top bits (here the
\* two top bits of the scaled 32-bit word) and its number the low byte
IOC_DIRSHIFT == 8
IOC_WRITE == 1
IOC_READ == 2
IOC_DIR(request) == (request \div 2^IOC_DIRSHIFT) % 4

\* the irregular requests: they carry no direction bits
SIOCGIFNAME == 16
SIOCGIFCONF == 18
SIOCGIFFLAGS == 19
SIOCGIFADDR == 21
SIOCGIFMTU == 33
SIOCGIFINDEX == 51
SIOCETHTOOL == 70
SIOCGIWRATE == 161
TCGETS == 1
TIOCINQ == 27
TIOCGWINSZ == 147

\* the DRM requests the code names, as direction * 2^IOC_DIRSHIFT + command
\* number (I915_GEM_PWRITE is a write-only request, GET_MAGIC a read-only one)
DRM_IOCTL_VERSION == 768
DRM_IOCTL_GET_MAGIC == 514
DRM_IOCTL_GEM_OPEN == 779
DRM_IOCTL_NOUVEAU_GEM_NEW == 896
DRM_IOCTL_NOUVEAU_GEM_PUSHBUF == 897
DRM_IOCTL_RADEON_INFO == 871
DRM_IOCTL_RADEON_GEM_CREATE == 861
DRM_IOCTL_RADEON_GEM_GET_TILING == 873
DRM_IOCTL_I915_GEM_PWRITE == 349
DRM_IOCTL_I915_GEM_MMAP == 862

\* the requests of the second switch that end in FATAL
UnhandledIoctls ==
  {811, 845, 823, 807}
  \cup {DRM_IOCTL_VERSION, DRM_IOCTL_NOUVEAU_GEM_NEW, DRM_IOCTL_NOUVEAU_GEM_PUSHBUF}
  \cup {DRM_IOCTL_GET_MAGIC, DRM_IOCTL_RADEON_INFO, DRM_IOCTL_I915_GEM_PWRITE,
        DRM_IOCTL_GEM_OPEN, DRM_IOCTL_I915_GEM_MMAP, DRM_IOCTL_RADEON_GEM_CREATE,
        DRM_IOCTL_RADEON_GEM_GET_TILING}
  \cup {333, 833, 583, 841, 843}

\* the file descriptor of the task's desched counter
DeschedFd == 5
\* Task::is_desched_event_syscall for an ioctl: it is on the desched counter
is_desched_event_syscall(k, arch) == RegSigned(arch, k.regs.arg[1]) % Mod32 = DeschedFd

\* (int)t->regs().arg2_signed()
IoctlRequest(k, arch) == RegSigned(arch, k.regs.arg[2]) % Mod32

\* an int converted to size_t
int_to_size(v) == IF v >= Mod32 \div 2 THEN Mod64 - Mod32 + v ELSE v

\* t->read_mem(ifconfp) of the SIOCGIFCONF case
read_ifconf_ok(k, ifconfp) == MappedRange(ifconfp, ifconf.size)

\* the object at arg3 with its size and mode, and the page below the stack
ioctl_reg_parameter(k, size, mode) ==
  [reg_parameter(k, 3, ParamSize(size), mode) EXCEPT
     !.st.record_page_below_stack_ptr = TRUE]

\* prepare_ioctl that trusts the size field of a request it does not know
\* (a faulty variant: the low bits of the request are taken for the size of
\* the object at arg3)
prepare_ioctl_guessing(k, arch) ==
  IF is_desched_event_syscall(k, arch) THEN Abort(k)
  ELSE
  CASE IoctlRequest(k, arch) = SIOCETHTOOL ->
         [mem_ptr_parameter(reg_parameter(k, 3, ParamSize(ifreq.size), IN_ONLY),
                            reg_parameter_ret(k, 3) + ifreq.ifru_data,
                            ParamSize(sizeof.ethtool_cmd), OUT)
            EXCEPT !.st.record_page_below_stack_ptr = TRUE]
    [] IoctlRequest(k, arch) = SIOCGIFCONF ->
         IF ~read_ifconf_ok(k, reg_parameter_ret(k, 3)) THEN Abort(k)
         ELSE [mem_ptr_parameter(
                 reg_parameter(k, 3, ParamSize(ifconf.size), OUT),
                 reg_parameter_ret(k, 3) + ifconf.ifcu_buf,
                 ParamSize(int_to_size(k.mem[reg_parameter_ret(k, 3) + ifconf.ifc_len] % Mod32)),
                 OUT)
                 EXCEPT !.st.record_page_below_stack_ptr = TRUE]
    [] IoctlRequest(k, arch)
         \in {SIOCGIFADDR, SIOCGIFFLAGS, SIOCGIFINDEX, SIOCGIFMTU, SIOCGIFNAME} ->
         ioctl_reg_parameter(k, ifreq.size, OUT)
    [] IoctlRequest(k, arch) = SIOCGIWRATE -> ioctl_reg_parameter(k, sizeof.iwreq, OUT)
    [] IoctlRequest(k, arch) = TCGETS ->
         reg_parameter(k, 3, ParamSize(sizeof.termios), OUT)
    [] IoctlRequest(k, arch) = TIOCINQ -> reg_parameter(k, 3, ParamSize(int_t.size), OUT)
    [] IoctlRequest(k, arch) = TIOCGWINSZ ->
         reg_parameter(k, 3, ParamSize(sizeof.winsize), OUT)
    [] OTHER ->
         IF ~HasBit(IOC_DIR(IoctlRequest(k, arch)), IOC_READ) THEN k
         ELSE IF IoctlRequest(k, arch) \in UnhandledIoctls THEN Abort(k)
         ELSE reg_parameter(k, 3, ParamSize(1 + (IoctlRequest(k, arch) % 2)), OUT)

\* prepare_ioctl
prepare_ioctl(k, arch) ==
  IF is_desched_event_syscall(k, arch) THEN Abort(k)
  ELSE
  CASE IoctlRequest(k, arch) = SIOCETHTOOL ->
         [mem_ptr_parameter(reg_parameter(k, 3, ParamSize(ifreq.size), IN_ONLY),
                            reg_parameter_ret(k, 3) + ifreq.ifru_data,
                            ParamSize(sizeof.ethtool_cmd), OUT)
            EXCEPT !.st.record_page_below_stack_ptr = TRUE]
    [] IoctlRequest(k, arch) = SIOCGIFCONF ->
         IF ~read_ifconf_ok(k, reg_parameter_ret(k, 3)) THEN Abort(k)
         ELSE [mem_ptr_parameter(
                 reg_parameter(k, 3, ParamSize(ifconf.size), OUT),
                 reg_parameter_ret(k, 3) + ifconf.ifcu_buf,
                 ParamSize(int_to_size(k.mem[reg_parameter_ret(k, 3) + ifconf.ifc_len] % Mod32)),
                 OUT)
                 EXCEPT !.st.record_page_below_stack_ptr = TRUE]
    [] IoctlRequest(k, arch)
         \in {SIOCGIFADDR, SIOCGIFFLAGS, SIOCGIFINDEX, SIOCGIFMTU, SIOCGIFNAME} ->
         ioctl_reg_parameter(k, ifreq.size, OUT)
    [] IoctlRequest(k, arch) = SIOCGIWRATE -> ioctl_reg_parameter(k, sizeof.iwreq, OUT)
    [] IoctlRequest(k, arch) = TCGETS ->
         reg_parameter(k, 3, ParamSize(sizeof.termios), OUT)
    [] IoctlRequest(k, arch) = TIOCINQ -> reg_parameter(k, 3, ParamSize(int_t.size), OUT)
    [] IoctlRequest(k, arch) = TIOCGWINSZ ->
         reg_parameter(k, 3, ParamSize(sizeof.winsize), OUT)
    [] OTHER ->
         IF ~HasBit(IOC_DIR(IoctlRequest(k, arch)), IOC_READ) THEN k
         ELSE IF IoctlRequest(k, arch) \in UnhandledIoctls THEN Abort(k)
         ELSE Abort(k)

\* case Arch::quotactl: the switch is over (int)arg1 & SUBCMDMASK
prepare_quotactl(k, arch) ==
  CASE (RegSigned(arch, k.regs.arg[1]) % Mod32) % (SUBCMDMASK + 1) = Q_GETQUOTA ->
         ReturnDone(reg_parameter(k, 4, ParamSize(sizeof.dqblk), OUT), PREVENT_SWITCH)
    [] (RegSigned(arch, k.regs.arg[1]) % Mod32) % (SUBCMDMASK + 1) = Q_GETINFO ->
         ReturnDone(reg_parameter(k, 4, ParamSize(sizeof.dqinfo), OUT), PREVENT_SWITCH)
    [] (RegSigned(arch, k.regs.arg[1]) % Mod32) % (SUBCMDMASK + 1) = Q_GETFMT ->
         ReturnDone(reg_parameter(k, 4, ParamSize(int_t.size), OUT), PREVENT_SWITCH)
    [] (RegSigned(arch, k.regs.arg[1]) % Mod32) % (SUBCMDMASK + 1) = Q_SETQUOTA -> Abort(k)
    [] (RegSigned(arch, k.regs.arg[1]) % Mod32) % (SUBCMDMASK + 1)
         \in {Q_QUOTAON, Q_QUOTAOFF, Q_SETINFO, Q_SYNC} ->
         ReturnDone(k, PREVENT_SWITCH)
    [] OTHER -> ReturnDone([k EXCEPT !.st.expect_errno = EINVAL], PREVENT_SWITCH)

\* case Arch::recvmmsg
prepare_recvmmsg_case(k, arch) ==
  ReturnDone(
    prepare_recvmmsg(
      reg_parameter(k, 2, ParamSize((mmsghdr.size * (k.regs.arg[3] % Mod32)) % Mod64),
                    IN_OUT),
      arch, reg_parameter_ret(k, 2), 0, k.regs.arg[3] % Mod32),
    IF ~HasBit(k.regs.arg[4] % Mod32, MSG_DONTWAIT) THEN ALLOW_SWITCH ELSE PREVENT_SWITCH)

\* case Arch::sendmsg: the flags are taken from arg4
prepare_sendmsg(k, arch) ==
  ReturnDone(
    k, IF ~HasBit(k.regs.arg[4] % Mod32, MSG_DONTWAIT) THEN ALLOW_SWITCH ELSE PREVENT_SWITCH)

\* the sendmmsg case returning PREVENT_SWITCH at once for MSG_DONTWAIT (a
\* faulty variant: that path leaves the preparer without done_preparing)
prepare_sendmmsg_undone(k, arch) ==
  IF ~HasBit(k.regs.arg[4] % Mod32, MSG_DONTWAIT)
  THEN ReturnDone(
         reg_parameter(k, 2, ParamSize((mmsghdr.size * (k.regs.arg[3] % Mod32)) % Mod64),
                       IN_OUT),
         ALLOW_SWITCH)
  ELSE Return(
         reg_parameter(k, 2, ParamSize((mmsghdr.size * (k.regs.arg[3] % Mod32)) % Mod64),
                       IN_OUT),
         PREVENT_SWITCH)

\* case Arch::sendmmsg
prepare_sendmmsg(k, arch) ==
  ReturnDone(
    reg_parameter(k, 2, ParamSize((mmsghdr.size * (k.regs.arg[3] % Mod32)) % Mod64), IN_OUT),
    IF ~HasBit(k.regs.arg[4] % Mod32, MSG_DONTWAIT) THEN ALLOW_SWITCH ELSE PREVENT_SWITCH)

\* the default case with the hint ALLOW_SWITCH (a faulty variant: a syscall
\* the core knows nothing about may be switched out)
prepare_default_allow(k) == Return(k, ALLOW_SWITCH)

\* the switch of rec_prepare_syscall_arch, default
prepare_default(k) == Return(k, PREVENT_SWITCH)

\* the switch of rec_prepare_syscall_arch
prepare_switch(k, arch, syscallno, files) ==
  CASE syscallno = "clone" -> prepare_clone(k)
    [] syscallno = "execve" -> prepare_execve(k, arch, files)
    [] syscallno \in {"fcntl", "fcntl64"} -> prepare_fcntl(k, arch)
    [] syscallno = "futex" -> prepare_futex(k, arch)
    [] syscallno = "socketcall" /\ arch = X86 -> prepare_socketcall(k, arch)
    [] syscallno = "recvfrom" /\ arch = X64 ->
         prepare_recvfrom(k, arch, reg_parameter_ret(k, 6))
    [] syscallno = "ipc" /\ arch = X86 -> prepare_ipc(k, arch)
    [] syscallno = "recvmsg" /\ arch = X64 -> prepare_recvmsg_case(k, arch)
    [] syscallno = "recvmmsg" -> prepare_recvmmsg_case(k, arch)
    [] syscallno = "sendmsg" /\ arch = X64 -> prepare_sendmsg(k, arch)
    [] syscallno = "sendmmsg" -> prepare_sendmmsg(k, arch)
    [] syscallno = "prctl" -> prepare_prctl(k, arch)
    [] syscallno = "quotactl" -> prepare_quotactl(k, arch)
    [] syscallno = "ioctl" -> ReturnDone(prepare_ioctl(k, arch), PREVENT_SWITCH)
    [] syscallno \in {"pread64", "read"} ->
         ReturnDone(reg_parameter(k, 2, from_syscall_result(WordSize(arch), k.regs.arg[3]),
                                  OUT),
                    ALLOW_SWITCH)
    [] syscallno = "readlink" ->
         ReturnDone(reg_parameter(k, 2, from_syscall_result(WordSize(arch), k.regs.arg[3]),
                                  OUT),
                    PREVENT_SWITCH)
    [] syscallno \in {"accept", "accept4"} /\ arch = X64 ->
         prepare_accept(k, arch, reg_parameter_ret(k, 3))
    [] syscallno \in {"write", "writev"} -> prepare_write(k, arch, files)
    [] syscallno \in {"readv", "preadv"} ->
         prepare_readv(k, arch, RegSigned(arch, k.regs.arg[3]) % Mod32,
                       reg_parameter_ret(k, 2))
    [] syscallno = "nanosleep" ->
         ReturnDone(reg_parameter(k, 2, ParamSize(timespec.size), OUT), ALLOW_SWITCH)
    [] syscallno = "sched_setaffinity" -> prepare_sched_setaffinity(k, arch)
    [] OTHER -> prepare_default(k)

\* TaskSyscallState::init(t) on the state get_or_create returned
init_state(k) == [k EXCEPT !.st = init(@, k.scratch_ptr)]

\* rec_prepare_syscall_arch that does not look at the desched record (a
\* faulty variant: a buffered syscall is prepared like any other)
rec_prepare_syscall_arch_no_desched(k, arch, syscallno, desched_rec, files) ==
  IF syscallno = SyscallNegative THEN Return(init_state(k), PREVENT_SWITCH)
  ELSE prepare_switch(init_state(k), arch, syscallno, files)

\* rec_prepare_syscall_arch<Arch>(t), after get_or_create
rec_prepare_syscall_arch(k, arch, syscallno, desched_rec, files) ==
  IF desched_rec THEN prepare_deschedule(init_state(k), arch, syscallno, files)
  ELSE IF syscallno = SyscallNegative THEN Return(init_state(k), PREVENT_SWITCH)
  ELSE prepare_switch(init_state(k), arch, syscallno, files)

(* ---------------------------------------------------------------------- *)
(* The exit hook and the restart hook                                      *)
(* ---------------------------------------------------------------------- *)
\* syscall_state_property.remove(*t)
remove(k) == IF ~k.ok THEN k ELSE [k EXCEPT !.has_state = FALSE, !.st = NewSyscallState]

\* check_syscall_rejected(t)
check_syscall_rejected(k, arch) ==
  IF k.ok /\ RegSigned(arch, k.regs.result) # -ENOSYS THEN Abort(k) ELSE k

\* Task::record_remote_even_if_null(addr) for an object of n cells
record_remote_even_if_null(k, addr, n) ==
  IF ~k.ok THEN k
  ELSE IF addr = Null THEN record_local(k, Null, 0, << >>)
  ELSE record_remote(k, addr, n)

\* the syscallbuf record of a descheduled buffered syscall: its extra_data
\* lies at SyscallbufData in the tracee and holds SyscallbufLen cells
SyscallbufData == ScratchPtr - 4
SyscallbufLen == 2

\* rec_process_syscall_arch, case Arch::clone, after a successful clone:
\* the records of the clone parameters (extract_clone_parameters) of the
\* parent and of the child, which starts with the parent's registers:
\* parent_tid in arg3, on X86 the user_desc in arg4 and child_tid in arg5
record_clone_tls(k, arch) ==
  IF arch = X86
  THEN record_remote_even_if_null(record_remote_even_if_null(k, k.regs.arg[4], 1),
                                  k.regs.arg[4], 1)
  ELSE k

record_clone(k, arch) ==
  record_remote_even_if_null(
    record_remote_even_if_null(
      record_clone_tls(record_remote_even_if_null(k, k.regs.arg[3], 1), arch),
      k.regs.arg[3], 1),
    IF arch = X86 THEN k.regs.arg[5] ELSE k.regs.arg[4], 1)

\* the restoration of arg1 when the preparer cleared CLONE_UNTRACED
restore_clone_flags(k) ==
  IF HasBit(k.st.syscall_entry_registers[1], CLONE_UNTRACED)
  THEN [k EXCEPT !.regs.arg[1] = k.st.syscall_entry_registers[1]]
  ELSE k

\* rec_process_syscall_arch, case Arch::clone
process_clone(k, arch) ==
  IF ~k.st.has_entry_registers THEN Abort(k)
  ELSE IF RegSigned(arch, k.regs.result) < 0 THEN restore_clone_flags(k)
  ELSE record_clone(restore_clone_flags(k), arch)

\* the auxv keys of <elf.h>
AT_PHDR == 3
AT_PHENT == 4
AT_PHNUM == 5
AT_PAGESZ == 6
AT_BASE == 7
AT_FLAGS == 8
AT_ENTRY == 9
AT_UID == 11
AT_EUID == 12
AT_GID == 13
AT_EGID == 14
AT_HWCAP == 16
AT_CLKTCK == 17
AT_SECURE == 23
AT_RANDOM == 25
AT_SYSINFO == 32
AT_SYSINFO_EHDR == 33

\* elf_auxv_ordering<Arch>::keys
elf_auxv_ordering(arch) ==
  IF arch = X86
  THEN <<AT_SYSINFO, AT_SYSINFO_EHDR, AT_HWCAP, AT_PAGESZ, AT_CLKTCK, AT_PHDR,
         AT_PHENT, AT_PHNUM, AT_BASE, AT_FLAGS, AT_ENTRY, AT_UID,
         AT_EUID, AT_GID, AT_EGID, AT_SECURE>>
  ELSE <<AT_SYSINFO_EHDR, AT_HWCAP, AT_PAGESZ, AT_CLKTCK, AT_PHDR,
         AT_PHENT, AT_PHNUM, AT_BASE, AT_FLAGS, AT_ENTRY,
         AT_UID, AT_EUID, AT_GID, AT_EGID, AT_SECURE>>

\* the number of bytes recorded at the address AT_RANDOM names
RandBytes == 16

\* init_scratch_memory<Arch>(t): the scratch region is mapped anew and the
\* mapping is written to the trace; the registers are left as they were
init_scratch_memory(k) ==
  IF ~k.ok THEN k
  ELSE [k EXCEPT !.events = Append(@, [type |-> "mapped_region", start |-> k.scratch_ptr,
                                       end |-> k.scratch_ptr + ScratchSize])]

\* process_execve: the walk over envp[], from its first pointer to the cell
\* after its null; -1 when a read faults
RECURSIVE skip_envp(_, _)
skip_envp(mem, stack_ptr) ==
  IF ~Mapped(stack_ptr) THEN -1
  ELSE IF mem[stack_ptr] = 0 THEN stack_ptr + 1
  ELSE skip_envp(mem, stack_ptr + 1)

\* process_execve: the address of the auxv table, after argc, argv[], its
\* null, envp[] and its null; -1 when a read faults or the null is missing
auxv_table(mem, sp) ==
  IF ~Mapped(sp) THEN -1
  ELSE IF ~Mapped(sp + mem[sp] + 1) THEN -1
  ELSE IF mem[sp + mem[sp] + 1] # 0 THEN -1
  ELSE skip_envp(mem, sp + mem[sp] + 2)

\* auxv_keys_ok that looks for the expected keys in any order (a faulty
\* variant: a permuted table is accepted)
auxv_keys_unordered(mem, table, keys) ==
  /\ MappedRange(table, 2 * Len(keys))
  /\ {mem[table + 2 * (i - 1)] : i \in 1..Len(keys)} = {keys[i] : i \in 1..Len(keys)}

\* process_execve: the keys of the table are the expected ones, in order
auxv_keys_ok(mem, table, keys) ==
  /\ MappedRange(table, 2 * Len(keys))
  /\ \A i \in 1..Len(keys) : mem[table + 2 * (i - 1)] = keys[i]

\* process_execve: the entry after the table is AT_RANDOM, and its value is
\* the address of the random bytes, which are recorded
record_at_random(k, at) ==
  IF ~MappedRange(at, 2) THEN Abort(k)
  ELSE IF k.mem[at] # AT_RANDOM THEN Abort(k)
  ELSE record_remote(k, k.mem[at + 1], RandBytes)

\* process_execve after a successful exec
post_exec(k, arch) ==
  IF auxv_table(k.mem, k.regs.sp) < 0 THEN Abort(k)
  ELSE IF ~auxv_keys_ok(k.mem, auxv_table(k.mem, k.regs.sp), elf_auxv_ordering(arch))
  THEN Abort(k)
  ELSE init_scratch_memory(
         record_at_random(k, auxv_table(k.mem, k.regs.sp)
                             + 2 * Len(elf_auxv_ordering(arch))))

\* process_execve after a failed exec, without the restoration (a faulty
\* variant: the redirected arg1 stays in the register)
restore_exec_arg1_skipped(k) == k

\* process_execve after a failed exec: arg1 is restored when it was advanced
restore_exec_arg1(k) ==
  IF k.regs.arg[1] # k.st.syscall_entry_registers[1]
  THEN [k EXCEPT !.regs.arg[1] = k.st.syscall_entry_registers[1]]
  ELSE k

\* process_execve<Arch>(t, syscall_state)
process_execve(k, arch) ==
  IF RegSigned(arch, k.regs.result) < 0 THEN restore_exec_arg1(k)
  ELSE IF k.regs.arg[1] # 0 THEN k
  ELSE post_exec([k EXCEPT !.events = @ \o k.st.exec_saved_event], arch)

\* the file names rr refuses to open (one name, of one character)
BlacklistedNames == {<<99>>}

\* is_blacklisted_filename(pathname)
is_blacklisted_filename(pathname) == pathname \in BlacklistedNames

(* ---------------------------------------------------------------------- *)
(* mmap                                                                    *)
(* ---------------------------------------------------------------------- *)
MAP_ANONYMOUS == 32
MAP_GROWSDOWN == 256
MAP_SHARED == 1
\* Arch::mmap_args, in cells
mmap_args == [addr |-> 0, len |-> 1, prot |-> 2, flags |-> 3, fd |-> 4, offset |-> 5,
              size |-> 6]
\* Arch::mmap_semantics
StructArguments == "StructArguments"
RegisterArguments == "RegisterArguments"
mmap_semantics(arch) == IF arch = X86 THEN StructArguments ELSE RegisterArguments

\* the answers of TraceWriter::write_mapped_region
RECORD_IN_TRACE == "RECORD_IN_TRACE"
DONT_RECORD_IN_TRACE == "DONT_RECORD_IN_TRACE"

\* (int)t->regs().argN_signed()
int_arg(arch, x) ==
  IF RegSigned(arch, x) % Mod32 >= Mod32 \div 2
  THEN (RegSigned(arch, x) % Mod32) - Mod32
  ELSE RegSigned(arch, x) % Mod32

\* the quotient of two C integers, b positive
c_div(a, b) == IF a >= 0 THEN a \div b ELSE -((-a) \div b)

\* ceil_page_size(length), in size_t
ceil_page_size(length) == (((length + PageSize - 1) % Mod64) \div PageSize) * PageSize

\* t->vm()->map(addr, size, prot, flags, offset, resource)
vm_map(k, addr, size, prot, flags, offset, resource) ==
  IF ~k.ok THEN k
  ELSE [k EXCEPT !.events = Append(@, [type |-> "vm_map", start |-> addr,
                                       end |-> addr + size, prot |-> prot,
                                       flags |-> flags, offset |-> offset,
                                       resource |-> resource])]

\* TraceWriter::write_mapped_region(file, prot, flags): the region is
\* written to the trace
write_mapped_region(k, addr, size) ==
  [k EXCEPT !.events = Append(@, [type |-> "mapped_region", start |-> addr,
                                  end |-> addr + size])]

\* Task::record_remote(addr, num_bytes) with num_bytes an ssize_t: a
\* negative count is no length of a buffer, the read of the tracee fails
record_remote_ssize(k, addr, num_bytes) ==
  IF num_bytes < 0 THEN Abort(k) ELSE record_remote(k, addr, num_bytes)

\* process_mmap, lines 1894-1900: off64_t end = st_size - offset;
\* record_remote(addr, min(end, (off64_t)size))
mmap_record(k, addr, size, st_size, offset, decision) ==
  IF decision = RECORD_IN_TRACE
  THEN record_remote_ssize(write_mapped_region(k, addr, size), addr,
                           Min(st_size - offset, size))
  ELSE write_mapped_region(k, addr, size)

\* process_mmap(t, syscallno, length, prot, flags, fd, offset_pages)
process_mmap(k, arch, length, prot, flags, fd, offset_pages, files) ==
  IF RegSigned(arch, k.regs.result) < 0 THEN k
  ELSE IF HasBit(flags % Mod32, MAP_ANONYMOUS)
  THEN vm_map(k, k.regs.result, ceil_page_size(length), prot, flags, 0, "anonymous")
  ELSE IF fd < 0 \/ HasBit(flags % Mod32, MAP_GROWSDOWN) THEN Abort(k)
  ELSE vm_map(mmap_record(k, k.regs.result, ceil_page_size(length), files.st_size,
                          offset_pages * PageSize, files.mapped),
              k.regs.result, ceil_page_size(length), prot, flags,
              offset_pages * PageSize, "file")

\* rec_process_syscall_arch, case Arch::mmap
process_mmap_case(k, arch, files) ==
  IF mmap_semantics(arch) = StructArguments
  THEN IF ~MappedRange(k.regs.arg[1], mmap_args.size) THEN Abort(k)
       ELSE process_mmap(k, arch, k.mem[k.regs.arg[1] + mmap_args.len],
                         k.mem[k.regs.arg[1] + mmap_args.prot],
                         k.mem[k.regs.arg[1] + mmap_args.flags],
                         int_arg(arch, k.mem[k.regs.arg[1] + mmap_args.fd]),
                         k.mem[k.regs.arg[1] + mmap_args.offset] \div PageSize, files)
  ELSE process_mmap(k, arch, k.regs.arg[2], int_arg(arch, k.regs.arg[3]),
                    int_arg(arch, k.regs.arg[4]), int_arg(arch, k.regs.arg[5]),
                    c_div(RegSigned(arch, k.regs.arg[6]), PageSize), files)

\* rec_process_syscall_arch, case Arch::mmap2
process_mmap2_case(k, arch, files) ==
  process_mmap(k, arch, k.regs.arg[2], int_arg(arch, k.regs.arg[3]),
               int_arg(arch, k.regs.arg[4]), int_arg(arch, k.regs.arg[5]),
               RegSigned(arch, k.regs.arg[6]), files)

\* rec_process_syscall_arch, case Arch::open
process_open(k, arch) ==
  IF c_str_len(k.mem, k.regs.arg[1], 0) < 0 THEN Abort(k)
  ELSE IF is_blacklisted_filename(read_c_str(k.mem, k.regs.arg[1]))
  THEN [k EXCEPT !.regs.result = Neg(arch, ENOENT)]
  ELSE k

\* the nanosleep case with an unconditional write-back (a faulty variant:
\* rem is written back and recorded after a completed sleep too)
process_nanosleep_always(k, arch) == process_syscall_results(k, TRUE)

\* rec_process_syscall_arch, case Arch::nanosleep: WRITE_BACK unless
\* (int)syscall_result_signed() is 0
process_nanosleep(k, arch) ==
  process_syscall_results(k, RegSigned(arch, k.regs.result) % Mod32 # 0)

\* check_expect_errno without the ASSERT (a faulty variant: any result passes)
check_expect_errno_unchecked(k, arch) == remove(k)

\* rec_process_syscall_arch, the branch taken when expect_errno is set
check_expect_errno(k, arch) ==
  IF RegSigned(arch, k.regs.result) = -k.st.expect_errno THEN remove(k) ELSE Abort(k)

\* SyscallRecordCase.generated has a case for the syscall: the cases of
\* the regular syscalls end in break and never reach the finalizer
regular_syscall_case(files) == files.regular

\* rec_process_syscall_arch<Arch>(t)
rec_process_syscall_arch(k, arch, syscallno, desched_rec, files) ==
  IF ~k.ok THEN k
  ELSE IF desched_rec
  THEN remove(record_local(k, SyscallbufData, SyscallbufLen,
                           Bytes(k.mem, SyscallbufData, SyscallbufLen)))
  ELSE IF syscallno = SyscallNegative THEN remove(check_syscall_rejected(k, arch))
  ELSE IF k.st.expect_errno # 0 THEN check_expect_errno(k, arch)
  ELSE remove(
    CASE syscallno \in {"getpid", "sendmsg"} -> k
      [] syscallno = "readlink" /\ regular_syscall_case(files) -> k
      [] syscallno = "clone" -> process_clone(k, arch)
      [] syscallno = "execve" -> process_execve(k, arch)
      [] syscallno = "nanosleep" -> process_nanosleep(k, arch)
      [] syscallno = "open" -> process_open(k, arch)
      [] syscallno = "mmap" -> process_mmap_case(k, arch, files)
      [] syscallno = "mmap2" -> process_mmap2_case(k, arch, files)
      [] syscallno \in {"accept", "accept4", "fcntl", "fcntl64", "futex", "ioctl", "ipc",
                        "prctl",
                        "pread64", "preadv", "quotactl", "read", "readv", "recvfrom",
                        "recvmsg", "recvmmsg", "sendmmsg", "socketcall"} ->
           process_syscall_results(k, TRUE)
      [] syscallno \in {"write", "writev"} -> k
      [] syscallno = "sched_setaffinity" ->
           IF ~k.st.has_entry_registers THEN Abort(k)
           ELSE [k EXCEPT !.regs.arg[1] = k.st.syscall_entry_registers[1],
                          !.regs.result = 0]
      [] OTHER -> check_syscall_rejected(k, arch))

\* rec_prepare_restart_syscall_arch without the final remove (a faulty
\* variant: the SyscallState outlives the restart)
restart_keeping_state(k, arch, syscallno) ==
  IF ~k.ok THEN k
  ELSE IF syscallno = "nanosleep" THEN process_syscall_results(k, TRUE) ELSE k

\* rec_prepare_restart_syscall_arch<Arch>(t)
rec_prepare_restart_syscall_arch(k, arch, syscallno) ==
  IF ~k.ok THEN k
  ELSE remove(IF syscallno = "nanosleep" THEN process_syscall_results(k, TRUE) ELSE k)

(* ---------------------------------------------------------------------- *)
(* The tracee: memory images and syscalls of the modelled programs         *)
(* ---------------------------------------------------------------------- *)
\* the tracee's objects, from the lowest mapped address up
A_BUF == NullPage
A_LEN == recv_args.size
B_BUF == A_BUF + A_LEN
B_LEN == A_LEN
ADDRLEN == B_BUF + B_LEN
IOV == ADDRLEN + 1
MSG == IOV + 2 * iovec.size
N_BUF == MSG + msghdr.size
N_LEN == timespec.size
RECV_ARGS == N_BUF + N_LEN
ACCEPT_ARGS == RECV_ARGS + recv_args.size
FUTEX == ACCEPT_ARGS + accept_args.size
TIMESPEC == FUTEX + 1
FLOCK == TIMESPEC + timespec.size
PATH == FLOCK + flock.size
ARGV == PATH + 2
\* the argument blocks of socketcall's recvmsg / sendmsg and recvmmsg /
\* sendmmsg, each without and with (_NB) MSG_DONTWAIT in its flags
MSG_ARGS == ARGV + 2
MSG_ARGS_NB == MSG_ARGS + socketcall_args.recvmsg.size
MMSG_ARGS == MSG_ARGS_NB + socketcall_args.recvmsg.size
MMSG_ARGS_NB == MMSG_ARGS + socketcall_args.recvmmsg.size
\* a file name on the blacklist, above the syscallbuf record
BlacklistedPath == ScratchPtr - 2
StackPtr == ScratchPtr - 8
SOCKFD == STDERR_FILENO + 1

\* the tracee's memory at a syscall entry: msg_name and msg_iovlen vary
\* with the program; scratch holds the bytes a previous syscall left
Image(name, iovlen) ==
  [a \in Addr |->
     CASE a >= ScratchPtr -> 200 + a
       [] a = ADDRLEN -> N_LEN
       [] a = IOV + iovec.iov_base -> A_BUF
       [] a = IOV + iovec.iov_len -> 2
       [] a = IOV + iovec.size + iovec.iov_base -> B_BUF
       [] a = IOV + iovec.size + iovec.iov_len -> B_LEN
       [] a = MSG + msghdr.msg_name -> name
       [] a = MSG + msghdr.msg_namelen -> N_LEN
       [] a = MSG + msghdr.msg_iov -> IOV
       [] a = MSG + msghdr.msg_iovlen -> iovlen
       [] a = MSG + msghdr.msg_control -> Null
       [] a = MSG + msghdr.msg_controllen -> 0
       [] a = MSG + msghdr.msg_flags -> 0
       [] a = RECV_ARGS + recv_args.sockfd -> SOCKFD
       [] a = RECV_ARGS + recv_args.buf -> A_BUF
       [] a = RECV_ARGS + recv_args.len -> A_LEN
       [] a = RECV_ARGS + recv_args.flags -> 0
       [] a = ACCEPT_ARGS + accept_args.sockfd -> SOCKFD
       [] a = ACCEPT_ARGS + accept_args.addr -> N_BUF
       [] a = ACCEPT_ARGS + accept_args.addrlen -> ADDRLEN
       [] a = PATH + 1 -> 0
       [] a = BlacklistedPath -> (CHOOSE banned \in BlacklistedNames : TRUE)[1]
       [] a = BlacklistedPath + 1 -> 0
       [] a \in {MSG_ARGS, MSG_ARGS_NB, MMSG_ARGS, MMSG_ARGS_NB} -> SOCKFD
       [] a \in {MSG_ARGS + 1, MSG_ARGS_NB + 1, MMSG_ARGS + 1, MMSG_ARGS_NB + 1} -> MSG
       [] a = MSG_ARGS + socketcall_args.recvmsg.flags -> 0
       [] a = MSG_ARGS_NB + socketcall_args.recvmsg.flags -> MSG_DONTWAIT
       [] a \in {MMSG_ARGS + socketcall_args.recvmmsg.vlen,
                 MMSG_ARGS_NB + socketcall_args.recvmmsg.vlen} -> 1
       [] a = MMSG_ARGS + socketcall_args.recvmmsg.flags -> 0
       [] a = MMSG_ARGS_NB + socketcall_args.recvmmsg.flags -> MSG_DONTWAIT
       [] a \in {MMSG_ARGS + socketcall_args.recvmmsg.timeout,
                 MMSG_ARGS_NB + socketcall_args.recvmmsg.timeout} -> Null
       [] a = ARGV -> PATH
       [] a = ARGV + 1 -> 0
       [] OTHER -> 100 + a]

\* the stack of the tracee after a successful exec: argc, argv[], a null,
\* envp[], a null, the auxv table, then AT_RANDOM and the address of the
\* random bytes
ExecStack == NullPage
RandAddr == StackPtr
\* the auxv entries the kernel lays out: the table of the tracee's
\* architecture ("ok"), the same with its first two keys exchanged
\* ("swapped"), or followed by AT_SECURE in place of AT_RANDOM ("no_random")
ExecAuxv(arch, v) ==
  (IF v = "swapped"
   THEN <<elf_auxv_ordering(arch)[2], elf_auxv_ordering(arch)[1]>>
          \o SubSeq(elf_auxv_ordering(arch), 3, Len(elf_auxv_ordering(arch)))
   ELSE elf_auxv_ordering(arch))
  \o <<IF v = "no_random" THEN AT_SECURE ELSE AT_RANDOM>>
ExecVariants == {"ok", "swapped", "no_random"}

\* the tracee's memory after a successful exec
ExecImage(arch, v) ==
  [a \in Addr |->
     CASE a = ExecStack -> 1
       [] a = ExecStack + 2 -> 0
       [] a = ExecStack + 4 -> 0
       [] a >= ExecStack + 5 /\ a < ExecStack + 5 + 2 * Len(ExecAuxv(arch, v)) ->
            IF (a - ExecStack - 5) % 2 = 0
            THEN ExecAuxv(arch, v)[(a - ExecStack - 5) \div 2 + 1]
            ELSE IF a = ExecStack + 5 + 2 * Len(ExecAuxv(arch, v)) - 1 THEN RandAddr
            ELSE 100 + a
       [] OTHER -> 100 + a]

\* the open files of the tracer (rr) and of the tracee, for kcmp: the tracee
\* inherits stdout and stderr, fd 4 is a dup of stderr, fd 5 is not open
Files(kcmp_supported, out) ==
  [kcmp |-> kcmp_supported, exec_supported |-> TRUE, regular |-> TRUE, st_size |-> 0,
   mapped |-> DONT_RECORD_IN_TRACE,
   tracer |-> [fd \in 1..2 |-> IF fd = STDOUT_FILENO THEN out ELSE "stderr"],
   tracee |-> [fd \in 1..5 |-> CASE fd = 1 -> out [] fd = 2 -> "stderr" [] fd = 3 -> "socket"
                                 [] fd = 4 -> "stderr" [] OTHER -> "closed"]]
FilesSet == {Files(c, out) : c \in BOOLEAN, out \in {"stdout", "closed"}}

\* a syscall at its entry
Call(arch, no, args, name, iovlen, files, desched) ==
  [arch |-> arch, no |-> no, args |-> args, name |-> name, iovlen |-> iovlen,
   files |-> files, desched |-> desched]
Plain(arch, no, args) == Call(arch, no, args, N_BUF, 2, Files(TRUE, "stdout"), FALSE)

\* where the kernel places the mappings of the modelled programs
MmapAddr == A_BUF
\* the sizes of the mapped file
FileSizes == {0, 3, 5}
\* an mmap of the file at SOCKFD, or an anonymous one
MmapFile(arch, no, args, st_size, decision) ==
  [Plain(arch, no, args) EXCEPT !.files.st_size = st_size, !.files.mapped = decision]

\* the ioctl requests the programs make: the irregular ones, requests
\* without the read bit, and requests with it (listed as unhandled, or not)
IoctlRequests ==
  {SIOCETHTOOL, SIOCGIFCONF, SIOCGIFADDR, SIOCGIFFLAGS, SIOCGIFINDEX, SIOCGIFMTU,
   SIOCGIFNAME, SIOCGIWRATE, TCGETS, TIOCINQ, TIOCGWINSZ}
  \cup {12, DRM_IOCTL_I915_GEM_PWRITE, 333}
  \cup {DRM_IOCTL_VERSION, DRM_IOCTL_GET_MAGIC, 811, 583, 517, 773}

\* the syscalls of the modelled programs
Inputs ==
  UNION {{Plain(arch, "read", <<SOCKFD, A_BUF, count, 0, 0, 0>>) :
            count \in {3, ScratchSize, ScratchSize + Align, RegMod(arch) - Align,
                      RegMod(arch) - 4}} :
         arch \in Archs}
  \cup {Call(arch, "read", <<SOCKFD, A_BUF, 3, 0, 0, 0>>, N_BUF, 2, Files(TRUE, "stdout"),
             TRUE) : arch \in Archs}
  \cup {Plain(arch, "readv", <<SOCKFD, IOV, cnt, 0, 0, 0>>) : arch \in Archs, cnt \in 1..2}
  \cup {Call(arch, no, <<fd, A_BUF, 3, 0, 0, 0>>, N_BUF, 2, f, d) :
          arch \in Archs, no \in {"write", "writev"}, fd \in 1..5, f \in FilesSet, d \in BOOLEAN}
  \cup {Call(X64, "fcntl", <<SOCKFD, cmd, FLOCK, 0, 0, 0>>, N_BUF, 2, Files(TRUE, "stdout"),
             TRUE) : cmd \in {GETLK, 9}}
  \cup {Call(X86, "socketcall", <<SYS_RECV, RECV_ARGS, 0, 0, 0, 0>>, N_BUF, 2,
             Files(TRUE, "stdout"), TRUE)}
  \cup {Plain(arch, "nanosleep", <<TIMESPEC, rem, 0, 0, 0, 0>>) :
          arch \in Archs, rem \in {Null, TIMESPEC}}
  \cup {Plain(arch, "futex", <<FUTEX, op, 0, 0, 0, 0>>) :
          arch \in Archs, op \in {FUTEX_WAIT, FUTEX_WAKE, FUTEX_CMD_MASK}}
  \cup {Plain(X64, "futex", <<FUTEX, op, 0, 0, uaddr2, 0>>) :
          op \in {FUTEX_WAIT_BITSET, FUTEX_WAKE_OP}, uaddr2 \in {A_BUF}}
  \cup {Plain(arch, "fcntl", <<SOCKFD, cmd, FLOCK, 0, 0, 0>>) :
          arch \in Archs, cmd \in {GETLK, SETLKW, DUPFD, GETOWN_EX, 9}}
  \cup {Plain(arch, "prctl", <<option, A_BUF, 0, 0, 0, 0>>) :
          arch \in Archs, option \in {PR_GET_TSC, PR_GET_NAME, PR_SET_NAME, PR_SET_SECCOMP, 0}}
  \cup {Plain(arch, "quotactl", <<(cmd * 2^SUBCMDSHIFT + type) % RegMod(arch), 0, 0, A_BUF,
                                   0, 0>>) :
          arch \in Archs, cmd \in {Q_GETFMT, Q_SYNC, Q_SYNC - 1}, type \in 0..1}
  \cup {Plain(X86, "ipc", <<call, 0, third, 0, ptr, 0>>) :
          call \in {MSGGET, MSGSND, MSGCTL, 1}, third \in {IPC_STAT + IPC_64},
          ptr \in {A_BUF}}
  \cup {Plain(X86, "ipc", <<MSGRCV, 0, 2, 0, IOV, 0>>)}
  \cup {Plain(arch, "clone", <<flags, 0, 0, 0, 0, 0>>) :
          arch \in Archs, flags \in {1, 1 + CLONE_UNTRACED}}
  \cup {Plain(arch, "execve", <<PATH, ARGV, 0, 0, 0, 0>>) : arch \in Archs}
  \cup {Plain(arch, "ioctl", <<SOCKFD, request, IOV + 1, 0, 0, 0>>) :
          arch \in Archs, request \in IoctlRequests}
  \cup {Plain(X64, "ioctl", <<SOCKFD, request, 0, 0, 0, 0>>) :
          request \in {SIOCETHTOOL, SIOCGIFCONF, TCGETS}}
  \cup {Plain(X64, "ioctl", <<fd, request, IOV + 1, 0, 0, 0>>) :
          fd \in {DeschedFd}, request \in {Mod32 + TCGETS, Mod64 - Mod32 + TIOCINQ}}
  \cup {MmapFile(X86, "mmap2", <<0, length, 1, MAP_SHARED, SOCKFD, offset_pages>>,
                 st_size, decision) :
          length \in {1, 4}, offset_pages \in {0, 1, 3}, st_size \in FileSizes,
          decision \in {RECORD_IN_TRACE, DONT_RECORD_IN_TRACE}}
  \cup {MmapFile(X64, "mmap", <<0, 3, 1, MAP_SHARED, SOCKFD, offset>>, st_size,
                 decision) :
          offset \in {0, 2 * PageSize}, st_size \in FileSizes,
          decision \in {RECORD_IN_TRACE, DONT_RECORD_IN_TRACE}}
  \cup {MmapFile(X86, "mmap", <<args, 0, 0, 0, 0, 0>>, st_size, RECORD_IN_TRACE) :
          args \in {ADDRLEN - 1, MSG}, st_size \in FileSizes}
  \cup {MmapFile(X64, "mmap", <<0, 3, 1, flags, Neg(X64, 1), 0>>, 5, RECORD_IN_TRACE) :
          flags \in {MAP_SHARED + MAP_ANONYMOUS,
                     MAP_SHARED + MAP_ANONYMOUS + MAP_GROWSDOWN}}
  \cup {[Plain(arch, "readlink", <<PATH, A_BUF, 3, 0, 0, 0>>) EXCEPT !.files.regular = c] :
          arch \in Archs, c \in BOOLEAN}
  \cup {Plain(arch, "open", <<pathname, 0, 0, 0, 0, 0>>) :
          arch \in Archs, pathname \in {BlacklistedPath, ARGV}}
  \cup {[Plain(X86, "execve", <<PATH, ARGV, 0, 0, 0, 0>>) EXCEPT !.files.exec_supported = FALSE]}
  \cup {Plain(arch, no, <<1, 1, A_BUF, 0, 0, 0>>) :
          arch \in Archs, no \in {"sched_setaffinity", "getpid", "unknown", SyscallNegative}}
  \cup {Plain(X64, "recvfrom", <<SOCKFD, A_BUF, A_LEN, 0, src, len>>) :
          src \in {N_BUF, A_BUF}, len \in {ADDRLEN}}
  \cup {Plain(X64, "recvfrom", <<SOCKFD, A_BUF, A_LEN, 0, Null, Null>>)}
  \cup {Plain(X64, "recvfrom", <<SOCKFD, B_BUF, B_LEN + 1, 0, N_BUF, ADDRLEN>>)}
  \cup {Plain(X64, "accept", <<SOCKFD, N_BUF, ADDRLEN, 0, 0, 0>>)}
  \cup {Call(X64, "recvmsg", <<SOCKFD, MSG, flags, 0, 0, 0>>, name, iovlen,
             Files(TRUE, "stdout"), FALSE) :
          flags \in {0, MSG_DONTWAIT}, name \in {Null, N_BUF}, iovlen \in 1..2}
  \cup {Plain(X86, "socketcall", <<call, argsp, 0, 0, 0, 0>>) :
          call \in {SYS_RECV}, argsp \in {RECV_ARGS}}
  \cup {Plain(X86, "socketcall", <<call, argsp, 0, 0, 0, 0>>) :
          call \in {SYS_ACCEPT, SYS_GETSOCKNAME, SYS_SOCKET, 0, SYS_SENDMMSG + 1},
          argsp \in {ACCEPT_ARGS}}
  \cup {Call(X86, "socketcall", <<call, argsp, 0, 0, 0, 0>>, Null, 1, Files(TRUE, "stdout"),
             FALSE) :
          call \in {SYS_RECVMSG, SYS_SENDMSG}, argsp \in {MSG_ARGS, MSG_ARGS_NB}}
  \cup {Call(X86, "socketcall", <<call, argsp, 0, 0, 0, 0>>, Null, 1, Files(TRUE, "stdout"),
             FALSE) :
          call \in {SYS_RECVMMSG, SYS_SENDMMSG}, argsp \in {MMSG_ARGS, MMSG_ARGS_NB}}
  \cup {Call(X64, "recvmmsg", <<SOCKFD, MSG, 1, flags, 0, 0>>, Null, 1,
             Files(TRUE, "stdout"), FALSE) : flags \in {0, MSG_DONTWAIT}}
  \cup {Plain(X64, "sendmsg", <<SOCKFD, MSG, flags, fourth, 0, 0>>) :
          flags \in {0, MSG_DONTWAIT}, fourth \in {0, MSG_DONTWAIT}}
  \cup {Plain(arch, "sendmmsg", <<SOCKFD, MSG, 1, flags, 0, 0>>) :
          arch \in Archs, flags \in {0, MSG_DONTWAIT}}

\* the results the kernel returns
Results(arch) ==
  {0, 1, 3, Neg(arch, EINVAL), Neg(arch, ENOSYS), Neg(arch, ERESTARTSYS)}

\* an mmap returns the address of the mapping or an error
ResultsOf(i) ==
  IF i.no \in {"mmap", "mmap2"} THEN {MmapAddr, Neg(i.arch, EINVAL)} ELSE Results(i.arch)

(* ---------------------------------------------------------------------- *)
(* The kernel: which tracee bytes it writes while the syscall runs         *)
(* ---------------------------------------------------------------------- *)
\* the kernel writes at most MaxKernelWrites cells during one syscall
MaxKernelWrites == 2
\* the value the kernel stores (a length, a flag or a data byte)
KernelValue == 1

\* the address the kernel uses for parameter i: it follows the argument
\* register, or the pointer it finds in the enclosing structure it was given
RECURSIVE KernelBase(_, _, _)
KernelBase(k, i, depth) ==
  LET param == k.st.param_list[i]
      slot == param.ptr_in_memory
      encl == Relocations(k.st.param_list, slot) \ {i}
  IN IF param.ptr_in_reg # 0 THEN k.regs.arg[param.ptr_in_reg]
     ELSE IF slot = Null \/ depth = 0 THEN param.dest
     ELSE IF encl = {} THEN k.mem[slot]
     ELSE LET j == CHOOSE x \in encl : TRUE
              at == KernelBase(k, j, depth - 1) + (slot - k.st.param_list[j].dest)
          IN IF Mapped(at) THEN k.mem[at] ELSE param.dest

\* the cell at offset off of parameter i holds a pointer the core registered
IsPointerSlot(k, i, off) ==
  \E j \in 1..Len(k.st.param_list) :
     k.st.param_list[j].ptr_in_memory = k.st.param_list[i].dest + off

(* ---------------------------------------------------------------------- *)
(* The recorder: one tracee, one syscall after the other                   *)
(* ---------------------------------------------------------------------- *)
VARIABLES
  pc,     \* "user": the tracee runs user code; "kernel": it is inside the
          \* syscall, after the enter hook; "exit": the syscall returned;
          \* "done": the exit or restart hook has run
  inp,    \* the syscall in flight (the last one, in user code)
  task,   \* the context of the hooks: SyscallState, registers, memory, trace
  kw,     \* the number of cells the kernel wrote during the syscall
  hook,   \* the last hook that ran
  entry,  \* task at the entry of the syscall, before the enter hook
  prev,   \* task before the last hook
  mt      \* the thread group of SpecTwo: two tasks in one address space

vars == <<pc, inp, task, kw, hook, entry, prev, mt>>

IdleTask ==
  [st |-> NewSyscallState, has_state |-> FALSE,
   regs |-> [arg |-> <<0, 0, 0, 0, 0, 0>>, result |-> 0, sp |-> StackPtr],
   mem |-> Image(N_BUF, 2), trace |-> << >>, ok |-> TRUE, sizes |-> << >>,
   finalized |-> "none", sw |-> UNSET_SWITCH, scratch_ptr |-> scratch_ptr(1),
   events |-> << >>]

NoCall == Plain(X64, "getpid", <<1, 1, A_BUF, 0, 0, 0>>)

\* a task of the thread group before its syscall: its context k is kept
\* without the memory, which the group shares; log lists the cells the
\* kernel wrote for the task's syscall, entry is k at the syscall's entry
IdleThread(tid) ==
  [pc |-> "user", inp |-> NoCall, log |-> << >>,
   k |-> [IdleTask EXCEPT !.mem = << >>, !.scratch_ptr = scratch_ptr(tid)],
   entry |-> [IdleTask EXCEPT !.scratch_ptr = scratch_ptr(tid)]]

\* the thread group before any syscall: mem is the shared memory, last the
\* task whose hook ran last (0: none), before the group before that hook
IdleGroup ==
  [mem |-> Image(Null, 1), last |-> 0,
   before |-> [mem |-> Image(Null, 1), t |-> [tid \in Tids |-> IdleThread(tid)]],
   t |-> [tid \in Tids |-> IdleThread(tid)]]

Init ==
  /\ pc = "user"
  /\ inp = NoCall
  /\ task = IdleTask
  /\ kw = 0
  /\ hook = "none"
  /\ entry = IdleTask
  /\ prev = IdleTask
  /\ mt = IdleGroup

\* syscall_state_property.get_or_create(*t)
get_or_create(k) ==
  IF k.has_state THEN k ELSE [k EXCEPT !.has_state = TRUE, !.st = NewSyscallState]

\* the tracee, after running user code, enters syscall i: rec_prepare_syscall
SyscallEnter(i) ==
  /\ pc = "user" /\ task.ok
  /\ LET k == [task EXCEPT
                 !.regs = [arg |-> i.args, result |-> Neg(i.arch, ENOSYS), sp |-> StackPtr],
                 !.mem = Image(i.name, i.iovlen),
                 !.trace = << >>, !.sizes = << >>, !.finalized = "none",
                 !.sw = UNSET_SWITCH]
     IN /\ entry' = k
        /\ prev' = k
        /\ task' = rec_prepare_syscall_arch(get_or_create(k), i.arch, i.no, i.desched,
                                            i.files)
  /\ inp' = i
  /\ pc' = "kernel"
  /\ kw' = 0
  /\ hook' = "prepare"
  /\ UNCHANGED mt

\* the syscall is resumed and the enter hook runs again: rec_prepare_syscall
RecPrepareSyscallAgain ==
  /\ pc = "kernel" /\ task.ok /\ hook = "prepare"
  /\ prev' = task
  /\ task' = rec_prepare_syscall_arch(get_or_create(task), inp.arch, inp.no, inp.desched,
                                      inp.files)
  /\ hook' = "prepare_again"
  /\ UNCHANGED <<pc, inp, kw, entry, mt>>

\* the kernel stores into the cell at offset off of the object it was given
\* for parameter i
KernelWrite(i, off) ==
  /\ pc = "kernel" /\ task.ok /\ kw < MaxKernelWrites
  /\ i \in 1..Len(task.st.param_list)
  /\ task.st.param_list[i].mode \in {OUT, IN_OUT, IN_OUT_NO_SCRATCH}
  /\ off < task.st.param_list[i].num_bytes.max_size
  /\ ~IsPointerSlot(task, i, off)
  /\ LET at == KernelBase(task, i, msghdr.size) + off IN
       /\ Mapped(at)
       /\ task.mem[at] # KernelValue
       /\ task' = [task EXCEPT !.mem[at] = KernelValue]
  /\ kw' = kw + 1
  /\ UNCHANGED <<pc, inp, hook, entry, prev, mt>>

\* the syscall returns r
KernelReturn(r) ==
  /\ pc = "kernel" /\ task.ok
  /\ r \in ResultsOf(inp)
  /\ inp.no = "clone" => r # 0
  /\ inp.no = "execve" => RegSigned(inp.arch, r) < 0
  /\ task' = [task EXCEPT !.regs.result = r]
  /\ pc' = "exit"
  /\ UNCHANGED <<inp, kw, hook, entry, prev, mt>>

\* the exec succeeds: the kernel replaces the tracee's memory by the new
\* image, clears the argument registers and returns 0; it finds the image
\* only under the path the tracee passed
KernelExec(v) ==
  /\ pc = "kernel" /\ task.ok
  /\ inp.no = "execve" /\ ~inp.desched
  /\ task.regs.arg[1] = inp.args[1]
  /\ task' = [task EXCEPT !.regs = [arg |-> <<0, 0, 0, 0, 0, 0>>, result |-> 0,
                                    sp |-> ExecStack],
                          !.mem = ExecImage(inp.arch, v)]
  /\ pc' = "exit"
  /\ UNCHANGED <<inp, kw, hook, entry, prev, mt>>

\* the syscall-exit trap: rec_process_syscall
RecProcessSyscall ==
  /\ pc = "exit" /\ task.ok
  /\ prev' = task
  /\ task' = rec_process_syscall_arch(task, inp.arch, inp.no, inp.desched, inp.files)
  /\ hook' = "exit"
  /\ pc' = "done"
  /\ UNCHANGED <<inp, kw, entry, mt>>

\* the syscall was interrupted and will be restarted: rec_prepare_restart_syscall
RecPrepareRestartSyscall ==
  /\ pc = "exit" /\ task.ok
  /\ task.regs.result = Neg(inp.arch, ERESTARTSYS)
  /\ prev' = task
  /\ task' = rec_prepare_restart_syscall_arch(task, inp.arch, inp.no)
  /\ hook' = "restart"
  /\ pc' = "done"
  /\ UNCHANGED <<inp, kw, entry, mt>>

\* the tracee is resumed and runs user code up to its next syscall; the
\* SyscallState, if the task still has one, stays with the task
UserCode ==
  /\ pc = "done" /\ task.ok
  /\ task' = [IdleTask EXCEPT !.has_state = task.has_state, !.st = task.st]
  /\ pc' = "user"
  /\ inp' = NoCall
  /\ kw' = 0
  /\ hook' = "none"
  /\ entry' = IdleTask
  /\ prev' = IdleTask
  /\ UNCHANGED mt

Next ==
  \/ \E i \in Inputs : SyscallEnter(i)
  \/ UserCode
  \/ RecPrepareSyscallAgain
  \/ \E i \in 1..6, off \in 0..(mmsghdr.size - 1) : KernelWrite(i, off)
  \/ \E r \in Results(inp.arch) \cup {MmapAddr} : KernelReturn(r)
  \/ \E v \in ExecVariants : KernelExec(v)
  \/ RecProcessSyscall
  \/ RecPrepareRestartSyscall

Spec == Init /\ [][Next]_vars

(* ---------------------------------------------------------------------- *)
(* The finalizer on its own: process_syscall_results with either argument  *)
(* ---------------------------------------------------------------------- *)
\* TaskSyscallState::process_syscall_results(write_back) called on the
\* prepared state of the syscall that returned, by a caller that removes
\* the state afterwards as the hooks do
Finalize(write_back) ==
  /\ pc = "exit" /\ task.ok
  /\ task.has_state /\ task.st.preparation_done
  /\ prev' = task
  /\ task' = remove(process_syscall_results(task, write_back))
  /\ hook' = "finalize"
  /\ pc' = "done"
  /\ UNCHANGED <<inp, kw, entry, mt>>

NextFinalizer ==
  \/ \E i \in Inputs : SyscallEnter(i)
  \/ UserCode
  \/ \E i \in 1..6, off \in 0..(msghdr.size - 1) : KernelWrite(i, off)
  \/ \E r \in Results(inp.arch) \cup {MmapAddr} : KernelReturn(r)
  \/ \E write_back \in BOOLEAN : Finalize(write_back)

SpecFinalizer == Init /\ [][NextFinalizer]_vars

(* ---------------------------------------------------------------------- *)
(* The recorder with two tasks of one thread group, one syscall each       *)
(* ---------------------------------------------------------------------- *)
\* the variables of the one-task recorder
solo_vars == <<pc, inp, task, kw, hook, entry, prev>>

\* the context of the hooks run for task tid: its own registers and
\* SyscallState over the memory it shares with the other task
Ctx(tid) == [mt.t[tid].k EXCEPT !.mem = mt.mem]

\* the recorder has not aborted
GroupOk == \A tid \in Tids : mt.t[tid].k.ok

\* the group after the context of task tid became k; last2 is tid after a
\* hook and 0 after a step of the kernel
Put(tid, k, pc2, inp2, log2, entry2, last2) ==
  [mem |-> k.mem, last |-> last2,
   before |-> [mem |-> mt.mem, t |-> mt.t],
   t |-> [mt.t EXCEPT ![tid] = [pc |-> pc2, inp |-> inp2, log |-> log2,
                                 k |-> [k EXCEPT !.mem = << >>], entry |-> entry2]]]

\* the syscalls of the two threads: each works on buffers of its own
InputsTwo(tid) ==
  IF tid = 1
  THEN {Call(X64, "read", <<SOCKFD, A_BUF, count, 0, 0, 0>>, Null, 1,
             Files(TRUE, "stdout"), FALSE) : count \in {3, ScratchSize}}
       \cup {Call(X64, "recvmsg", <<SOCKFD, MSG, 0, 0, 0, 0>>, Null, 1,
                  Files(TRUE, "stdout"), FALSE)}
  ELSE {Call(X64, "read", <<SOCKFD, B_BUF, 3, 0, 0, 0>>, Null, 1,
             Files(TRUE, "stdout"), FALSE),
        Call(X64, "recvfrom", <<SOCKFD, B_BUF, B_LEN, 0, N_BUF, ADDRLEN>>, Null, 1,
             Files(TRUE, "stdout"), FALSE)}

\* the results the kernel returns to them
ResultsTwo == {1, 3}

\* task tid enters syscall i: rec_prepare_syscall
EnterTwo(tid, i) ==
  /\ mt.t[tid].pc = "user" /\ GroupOk
  /\ LET k == [Ctx(tid) EXCEPT
                 !.regs = [arg |-> i.args, result |-> Neg(i.arch, ENOSYS), sp |-> StackPtr]]
     IN mt' = Put(tid,
                  rec_prepare_syscall_arch(get_or_create(k), i.arch, i.no, i.desched,
                                           i.files),
                  "kernel", i, << >>, k, tid)
  /\ UNCHANGED solo_vars

\* the kernel stores into the cell at offset off of the object it was given
\* for parameter i of the syscall of task tid (once per syscall)
KernelWriteTwo(tid, i, off) ==
  /\ mt.t[tid].pc = "kernel" /\ GroupOk /\ mt.t[tid].log = << >>
  /\ i \in 1..Len(mt.t[tid].k.st.param_list)
  /\ mt.t[tid].k.st.param_list[i].mode \in {OUT, IN_OUT, IN_OUT_NO_SCRATCH}
  /\ off < mt.t[tid].k.st.param_list[i].num_bytes.max_size
  /\ ~IsPointerSlot(mt.t[tid].k, i, off)
  /\ LET at == KernelBase(Ctx(tid), i, msghdr.size) + off IN
       /\ Mapped(at)
       /\ mt' = Put(tid, [Ctx(tid) EXCEPT !.mem[at] = KernelValue], "kernel",
                    mt.t[tid].inp, <<[i |-> i, off |-> off]>>, mt.t[tid].entry, 0)
  /\ UNCHANGED solo_vars

\* the syscall of task tid returns r
KernelReturnTwo(tid, r) ==
  /\ mt.t[tid].pc = "kernel" /\ GroupOk
  /\ mt' = Put(tid, [Ctx(tid) EXCEPT !.regs.result = r], "exit", mt.t[tid].inp,
               mt.t[tid].log, mt.t[tid].entry, 0)
  /\ UNCHANGED solo_vars

\* the syscall-exit trap of task tid: rec_process_syscall
ExitTwo(tid) ==
  /\ mt.t[tid].pc = "exit" /\ GroupOk
  /\ mt' = Put(tid,
               rec_process_syscall_arch(Ctx(tid), mt.t[tid].inp.arch, mt.t[tid].inp.no,
                                        mt.t[tid].inp.desched, mt.t[tid].inp.files),
               "done", mt.t[tid].inp, mt.t[tid].log, mt.t[tid].entry, tid)
  /\ UNCHANGED solo_vars

NextTwo ==
  \/ \E tid \in Tids : \E i \in InputsTwo(tid) : EnterTwo(tid, i)
  \/ \E tid \in Tids, i \in 1..4, off \in 0..1 : KernelWriteTwo(tid, i, off)
  \/ \E tid \in Tids, r \in ResultsTwo : KernelReturnTwo(tid, r)
  \/ \E tid \in Tids : ExitTwo(tid)

SpecTwo == Init /\ [][NextTwo]_vars

(* ---------------------------------------------------------------------- *)
(* Properties                                                              *)
(* ---------------------------------------------------------------------- *)
\* the enter hook has just run, the kernel has not written yet
JustPrepared == pc = "kernel" /\ hook = "prepare" /\ kw = 0 /\ task.ok
\* the exit or restart hook has run process_syscall_results to its end
Finalized == pc = "done" /\ task.ok /\ task.finalized # "none"
\* the parameters of the syscall the last hook consumed
FinalParams == prev.st.param_list

\* C1 (origin restoration): after process_syscall_results has finished for
\* a syscall with scratch enabled, with WRITE_BACK or NO_WRITE_BACK, every
\* argument register of a registered parameter and every registered
\* in-memory pointer slot holds the parameter's dest, the value it had at
\* syscall entry.
C1_OriginRestoration ==
  (Finalized /\ prev.st.scratch_enabled) =>
    \A i \in 1..Len(FinalParams) :
       /\ FinalParams[i].ptr_in_reg # 0 =>
            /\ task.regs.arg[FinalParams[i].ptr_in_reg] = FinalParams[i].dest
            /\ entry.regs.arg[FinalParams[i].ptr_in_reg] = FinalParams[i].dest
       /\ FinalParams[i].ptr_in_memory # Null =>
            /\ task.mem[FinalParams[i].ptr_in_memory] = FinalParams[i].dest
            /\ entry.mem[FinalParams[i].ptr_in_memory] = FinalParams[i].dest

\* C1 witness: a recvmsg with a msg_name buffer has been finalized with
\* WRITE_BACK; the msghdr register had been redirected, the msghdr was
\* written back, and register and msg_name slot hold their entry values.
C1_Witness ==
  /\ Finalized /\ prev.st.scratch_enabled /\ task.finalized = "WRITE_BACK"
  /\ inp.no = "recvmsg" /\ inp.name = N_BUF
  /\ prev.regs.arg[2] # entry.regs.arg[2]
  /\ task.regs.arg[2] = MSG
  /\ task.mem[MSG + msghdr.msg_name] = N_BUF

\* the cells of parameter i of context k that hold a registered pointer
PointerSlotOwner(k, i, off) ==
  CHOOSE j \in 1..Len(k.st.param_list) :
     k.st.param_list[j].ptr_in_memory = k.st.param_list[i].dest + off

OriginalCell(a) ==
  /\ ~InScratch(a)
  /\ \A i \in 1..Len(task.st.param_list) :
        task.st.param_list[i].mode = IN_OUT_NO_SCRATCH =>
          ~ParamContains(task.st.param_list[i], a)

RecIndex(param_list, i) == Cardinality({j \in 1..i : param_list[j].mode # IN_ONLY})
FinalRecord(i) == task.trace[RecIndex(FinalParams, i)]
\* the size ParamSize::eval yields for parameter i at the end of the syscall
EvalSize(i) ==
  eval(FinalParams[i].num_bytes, prev,
       SumSameSource(FinalParams, task.sizes, i, 1) % Mod64).size
\* parameter j is written back over bytes of parameter i
WrittenOver(i, j) ==
  /\ j # i /\ FinalParams[j].mode \in {OUT, IN_OUT}
  /\ FinalParams[j].dest < FinalParams[i].dest + task.sizes[i]
  /\ FinalParams[i].dest < FinalParams[j].dest + task.sizes[j]

Dynamic(i) == FinalParams[i].num_bytes.from_syscall \/ FinalParams[i].num_bytes.mem_ptr # Null
\* the parameters that share the source of parameter i
Group(i) ==
  {j \in 1..Len(FinalParams) :
     is_same_source(FinalParams[j].num_bytes, FinalParams[i].num_bytes)}
\* the total the source of parameter i holds at the end of the syscall
SourceTotal(i) ==
  IF FinalParams[i].num_bytes.from_syscall
  THEN Truncate(prev.regs.result, FinalParams[i].num_bytes.read_size)
  ELSE Truncate(prev.mem[FinalParams[i].num_bytes.mem_ptr],
                FinalParams[i].num_bytes.read_size)
RECURSIVE SumOver(_, _)
SumOver(f, S) ==
  IF S = {} THEN 0
  ELSE f[CHOOSE x \in S : TRUE] + SumOver(f, S \ {CHOOSE x \in S : TRUE})
MaxSizes == [i \in 1..Len(FinalParams) |-> FinalParams[i].num_bytes.max_size]

\* C5 (same-source distribution): after finalization every parameter with
\* a dynamic size got min(max_size, source total minus the sizes given to
\* the earlier members of its group), and the sizes of its group sum to
\* min(sum of the max_sizes, source total).
C5_SameSourceDistribution ==
  Finalized =>
    \A i \in 1..Len(FinalParams) :
       Dynamic(i) =>
         /\ task.sizes[i]
              = Min(FinalParams[i].num_bytes.max_size,
                    SourceTotal(i) - SumOver(task.sizes, {j \in Group(i) : j < i}))
         /\ SumOver(task.sizes, Group(i))
              = Min(SumOver(MaxSizes, Group(i)), SourceTotal(i))

\* C5 witness: a readv into buffers of 2 and 4 cells returned 3; the
\* buffers were given 2 and 1 (the iovec array itself, 4 cells, is IN).
C5_Witness ==
  /\ Finalized /\ inp.no = "readv" /\ inp.args[3] = 2
  /\ prev.regs.result = 3
  /\ MaxSizes = <<4, 2, 4>>
  /\ task.sizes = <<4, 2, 1>>

\* C6 as the specification states it: a second run of the preparer for the
\* syscall in flight, after done_preparing has run, does not fail, returns
\* the same Switchable, and leaves param_list, the scratch cursor, the
\* registers and the tracee's memory unchanged.
C6_PreparerIdempotent ==
  (hook = "prepare_again" /\ prev.st.preparation_done) =>
    /\ task.ok
    /\ task.sw = prev.sw
    /\ task.st.param_list = prev.st.param_list
    /\ task.st.scratch = prev.st.scratch
    /\ task.regs = prev.regs
    /\ task.mem = prev.mem

\* C7 (expect_errno): when the preparer has set expect_errno = E, the exit
\* hook completes exactly if the result is -E, and then it has written and
\* recorded nothing and the SyscallState is gone.
C7_ExpectErrno ==
  (pc = "done" /\ hook = "exit" /\ prev.st.expect_errno # 0) =>
    /\ task.ok <=> RegSigned(inp.arch, prev.regs.result) = -prev.st.expect_errno
    /\ task.ok =>
         /\ task.mem = prev.mem
         /\ task.trace = prev.trace
         /\ task.regs = prev.regs
         /\ task.finalized = "none"
         /\ ~task.has_state

\* C7 witness: an fcntl with an unknown command returned -EINVAL and the
\* exit hook completed.
C7_Witness ==
  /\ pc = "done" /\ hook = "exit" /\ task.ok
  /\ inp.no = "fcntl"
  /\ prev.st.expect_errno = EINVAL /\ prev.has_state
  /\ RegSigned(inp.arch, prev.regs.result) = -EINVAL
  /\ ~task.has_state

\* fd of the tracee refers to the open file of the tracer's stdout or
\* stderr; without kcmp, the fd number decides
RefersToStdio(files, fd) ==
  IF ~files.kcmp THEN fd \in {STDOUT_FILENO, STDERR_FILENO}
  ELSE /\ files.tracee[fd] # "closed"
       /\ \E s \in {STDOUT_FILENO, STDERR_FILENO} :
             files.tracer[s] # "closed" /\ files.tracer[s] = files.tracee[fd]

\* C8 as the specification states it: a write or writev gets
\* PREVENT_SWITCH exactly if its fd refers to the tracer's stdout or
\* stderr, and ALLOW_SWITCH otherwise, descheduled or not.
C8_StdioLinearization ==
  (pc = "kernel" /\ hook = "prepare" /\ inp.no \in {"write", "writev"}) =>
    /\ task.ok
    /\ task.sw = IF RefersToStdio(inp.files, inp.args[1]) THEN PREVENT_SWITCH
                 ELSE ALLOW_SWITCH

\* the preparer of syscall i calls done_preparing(ALLOW_SWITCH)
HintAllowSwitch(i) ==
  /\ ~i.desched
  /\ \/ i.no \in {"read", "pread64", "readv", "preadv", "nanosleep", "recvfrom",
                  "accept", "accept4"}
     \/ i.no = "recvmsg" /\ ~HasBit(i.args[3], MSG_DONTWAIT)
     \/ i.no = "futex" /\ i.args[2] = FUTEX_WAIT
     \/ i.no = "fcntl" /\ i.args[2] = SETLKW
     \/ i.no = "socketcall" /\ i.args[1] \in {SYS_RECV, SYS_ACCEPT}
\* the scratch bytes requested: scratch cursor minus scratch base
Requested == (task.st.scratch - ScratchPtr) % Mod64

\* C9 as the specification states it: done_preparing(ALLOW_SWITCH) never
\* aborts; with more scratch requested than ScratchSize it returns
\* PREVENT_SWITCH, leaves scratch disabled and the tracee untouched; with
\* exactly ScratchSize requested it returns ALLOW_SWITCH.
C9_ScratchExhaustionNotFatal ==
  (pc = "kernel" /\ hook = "prepare" /\ kw = 0 /\ HintAllowSwitch(inp)) =>
    /\ task.ok
    /\ Requested > ScratchSize =>
         /\ task.sw = PREVENT_SWITCH
         /\ ~task.st.scratch_enabled
         /\ task.mem = entry.mem
         /\ task.regs = entry.regs
    /\ Requested = ScratchSize =>
         /\ task.sw = ALLOW_SWITCH
         /\ task.st.scratch_enabled

\* C10 (lifecycle): the task has a SyscallState exactly from the enter hook
\* to the exit or restart hook; every hook that ends a syscall removes it,
\* and the enter hook of the next syscall finds none.
C10_Lifecycle ==
  task.ok =>
    /\ task.has_state <=> pc \in {"kernel", "exit"}
    /\ pc \in {"kernel", "exit"} => ~entry.has_state

\* C10 witness: the restart hook has ended an interrupted read that had
\* scratch enabled, and the task has no SyscallState.
C10_Witness ==
  /\ pc = "done" /\ hook = "restart" /\ task.ok
  /\ inp.no = "read"
  /\ prev.has_state /\ prev.st.scratch_enabled
  /\ ~task.has_state

(* ---------------------------------------------------------------------- *)
(* C11: scratch is per task                                                *)
(* ---------------------------------------------------------------------- *)
\* the scratch cells assigned to the parameters of the syscall of task tid
ScratchAreas(tid) ==
  IF ~mt.t[tid].k.st.scratch_enabled THEN {}
  ELSE UNION {mt.t[tid].k.st.param_list[i].scratch ..
                (mt.t[tid].k.st.param_list[i].scratch
                   + mt.t[tid].k.st.param_list[i].num_bytes.max_size - 1) :
              i \in {j \in 1..Len(mt.t[tid].k.st.param_list) :
                       mt.t[tid].k.st.param_list[j].mode # IN_OUT_NO_SCRATCH}}

\* the scratch region init_scratch_memory mapped for task tid
ScratchRegion(tid) == scratch_ptr(tid) .. (scratch_ptr(tid) + ScratchSize - 1)

\* the syscall of task tid run alone from its entry state: the enter hook,
\* the kernel's writes of the log, the kernel's result, the exit hook
SoloKernel(k, log) ==
  IF log = << >> THEN k
  ELSE [k EXCEPT !.mem[KernelBase(k, log[1].i, msghdr.size) + log[1].off] = KernelValue]
Solo(tid) ==
  rec_process_syscall_arch(
    [SoloKernel(rec_prepare_syscall_arch(get_or_create(mt.t[tid].entry),
                                         mt.t[tid].inp.arch, mt.t[tid].inp.no,
                                         mt.t[tid].inp.desched, mt.t[tid].inp.files),
                mt.t[tid].log)
       EXCEPT !.regs.result = mt.before.t[tid].k.regs.result],
    mt.t[tid].inp.arch, mt.t[tid].inp.no, mt.t[tid].inp.desched, mt.t[tid].inp.files)

\* the cells the memory records of a trace cover
RecordedCells(trace) ==
  UNION {trace[n].addr .. (trace[n].addr + Len(trace[n].data) - 1) : n \in 1..Len(trace)}

\* C11, disjointness: the scratch areas assigned to the parameters of one
\* task lie in that task's scratch region and share no cell with the
\* scratch areas of the other task, in every interleaving.
C11_Disjoint ==
  \A a \in Tids, b \in Tids :
     a # b => /\ ScratchAreas(a) \subseteq ScratchRegion(a)
              /\ ScratchAreas(a) \cap ScratchAreas(b) = {}

\* C11, frame: a hook run for one task leaves the other task's registers,
\* SyscallState and scratch region as they were.
C11_Frame ==
  mt.last \in Tids =>
    \A o \in Tids \ {mt.last} :
       /\ mt.t[o] = mt.before.t[o]
       /\ \A a \in ScratchRegion(o) : mt.mem[a] = mt.before.mem[a]

\* C11, isolation: when the exit hook of a task has run, the memory records
\* it emitted and the bytes it wrote back are those of the same syscall run
\* alone from the task's entry state.
C11_AsAlone ==
  \A tid \in Tids :
     (mt.last = tid /\ mt.t[tid].pc = "done" /\ GroupOk) =>
        /\ Solo(tid).ok
        /\ mt.t[tid].k.trace = Solo(tid).trace
        /\ mt.t[tid].k.regs = Solo(tid).regs
        /\ \A a \in RecordedCells(Solo(tid).trace) : mt.mem[a] = Solo(tid).mem[a]

C12_Frozen ==
  [][(pc = "kernel" /\ pc' = "kernel" /\ task.st.preparation_done) =>
       /\ task'.st.param_list = task.st.param_list
       /\ task'.st.scratch = task.st.scratch
       /\ task'.st.switchable = task.st.switchable
       /\ task'.st.scratch_enabled = task.st.scratch_enabled
       /\ task'.st.preparation_done
       /\ hook' # hook => (task'.mem = task.mem /\ task'.regs = task.regs)]_vars

\* C12 witness: the preparer has run a second time for a syscall whose
\* parameters were redirected to scratch.
C12_Witness ==
  /\ hook = "prepare_again" /\ pc = "kernel" /\ task.ok
  /\ prev.st.preparation_done /\ prev.st.scratch_enabled
  /\ Len(prev.st.param_list) > 1

(* ---------------------------------------------------------------------- *)
(* C13: process_syscall_results(NO_WRITE_BACK)                             *)
(* ---------------------------------------------------------------------- *)
\* process_syscall_results(NO_WRITE_BACK) has just returned
FinalizedNoWriteBack ==
  hook = "finalize" /\ task.ok /\ task.finalized = "NO_WRITE_BACK"

\* address a is a pointer slot of a registered parameter
IsRegisteredSlot(a) ==
  \E i \in 1..Len(prev.st.param_list) : prev.st.param_list[i].ptr_in_memory = a

\* the redirected registers and pointer slots hold dest again
Restored ==
  \A i \in 1..Len(prev.st.param_list) :
     /\ prev.st.param_list[i].ptr_in_reg # 0 =>
          task.regs.arg[prev.st.param_list[i].ptr_in_reg] = prev.st.param_list[i].dest
     /\ prev.st.param_list[i].ptr_in_memory # Null =>
          task.mem[prev.st.param_list[i].ptr_in_memory] = prev.st.param_list[i].dest

C13_NoWriteBackScratch ==
  (FinalizedNoWriteBack /\ prev.st.scratch_enabled) =>
    /\ task.trace = prev.trace
    /\ \A a \in NullPage..(MemTop - 1) : ~IsRegisteredSlot(a) => task.mem[a] = prev.mem[a]
    /\ Restored

(* ---------------------------------------------------------------------- *)
(* C14: nanosleep                                                          *)
(* ---------------------------------------------------------------------- *)
\* hook h has ended a nanosleep
NanosleepDone(h) == pc = "done" /\ hook = h /\ inp.no = "nanosleep" /\ task.ok

\* the memory record of rem, taken from the scratch area the kernel was given
RemRecord ==
  [addr |-> inp.args[2],
   data |-> Bytes(prev.mem, prev.st.param_list[1].scratch, timespec.size)]

\* rem was written back and recorded / was neither written back nor recorded
RemWrittenBack ==
  /\ task.finalized = "WRITE_BACK"
  /\ inp.args[2] # Null =>
       /\ task.trace = <<RemRecord>>
       /\ Bytes(task.mem, inp.args[2], timespec.size) = RemRecord.data
RemUntouched ==
  /\ task.finalized = "NO_WRITE_BACK"
  /\ task.trace = << >>
  /\ inp.args[2] # Null =>
       Bytes(task.mem, inp.args[2], timespec.size)
         = Bytes(entry.mem, inp.args[2], timespec.size)

\* C14 (nanosleep): the exit hook writes rem back and records it exactly
\* when the kernel's result is not 0, and finalizes with NO_WRITE_BACK for a
\* result of 0; the restart hook finalizes an interrupted nanosleep with
\* write-back; both destroy the state.
C14_Nanosleep ==
  /\ NanosleepDone("exit") =>
       /\ IF prev.regs.result # 0 THEN RemWrittenBack ELSE RemUntouched
       /\ ~task.has_state
  /\ NanosleepDone("restart") => (RemWrittenBack /\ ~task.has_state)

\* C14 witness: the restart hook has written back and recorded the rem the
\* kernel stored for an interrupted nanosleep.
C14_Witness ==
  /\ NanosleepDone("restart") /\ inp.args[2] # Null /\ kw > 0
  /\ task.trace = <<RemRecord>>
  /\ Bytes(task.mem, inp.args[2], timespec.size)
       # Bytes(entry.mem, inp.args[2], timespec.size)

(* ---------------------------------------------------------------------- *)
(* C15: execve of an unsupported image                                     *)
(* ---------------------------------------------------------------------- *)
\* the enter hook (first or repeated run) of an execve has just run
ExecPrepared ==
  pc = "kernel" /\ hook \in {"prepare", "prepare_again"} /\ inp.no = "execve" /\ task.ok

\* the exit hook of a failed execve has just run
ExecFailed ==
  /\ pc = "done" /\ hook = "exit" /\ inp.no = "execve" /\ task.ok
  /\ RegSigned(inp.arch, prev.regs.result) < 0

\* a1 is the address of the NUL that ends the path at a0
IsNulOfPath(mem, a0, a1) ==
  /\ a1 >= a0 /\ Mapped(a1) /\ mem[a1] = 0
  /\ \A a \in a0..(a1 - 1) : mem[a] # 0

\* C15: execve of an unsupported image: the preparer sets arg1 to the
\* address of the path's terminating NUL (arg1 + length of the path) and
\* leaves every other register unchanged; after the exit hook of the failed
\* execve arg1 again equals its value at syscall entry; for a supported
\* image arg1 is never modified.
C15_ExecveBlocked ==
  /\ (ExecPrepared /\ ~inp.files.exec_supported) =>
       /\ IsNulOfPath(entry.mem, entry.regs.arg[1], task.regs.arg[1])
       /\ task.regs = [entry.regs EXCEPT !.arg[1] = task.regs.arg[1]]
  /\ ExecFailed => task.regs.arg[1] = entry.regs.arg[1]
  /\ (ExecPrepared /\ inp.files.exec_supported) => task.regs = entry.regs
  /\ (pc = "done" /\ inp.no = "execve" /\ task.ok /\ inp.files.exec_supported) =>
       task.regs.arg[1] = prev.regs.arg[1]

\* C15 witness: the exit hook of a failed execve of an unsupported image has
\* restored arg1, which the kernel saw advanced to the NUL of the path
C15_Witness ==
  /\ ExecFailed /\ ~inp.files.exec_supported
  /\ prev.regs.arg[1] = entry.regs.arg[1] + 1
  /\ task.regs.arg[1] = entry.regs.arg[1]

(* ---------------------------------------------------------------------- *)
(* C16: clone with CLONE_UNTRACED                                          *)
(* ---------------------------------------------------------------------- *)
\* the clone is in the kernel or has just returned, after the enter hook
CloneInKernel == pc \in {"kernel", "exit"} /\ inp.no = "clone" /\ task.ok

\* the exit hook of the clone has run
CloneExited == pc = "done" /\ hook = "exit" /\ inp.no = "clone" /\ task.ok

\* C16: clone with CLONE_UNTRACED set in arg1 at entry: the kernel executes
\* the call with that bit cleared and all other flag bits unchanged, and
\* after the exit hook arg1 equals the entry flag word again, whether the
\* clone succeeded or failed; when the bit is not set at entry, arg1 is
\* never modified.
C16_CloneUntraced ==
  /\ (CloneInKernel /\ HasBit(entry.regs.arg[1], CLONE_UNTRACED)) =>
       task.regs.arg[1] = entry.regs.arg[1] - CLONE_UNTRACED
  /\ CloneExited => task.regs.arg[1] = entry.regs.arg[1]
  /\ ((CloneInKernel \/ CloneExited) /\ ~HasBit(entry.regs.arg[1], CLONE_UNTRACED)) =>
       task.regs.arg[1] = entry.regs.arg[1]

(* ---------------------------------------------------------------------- *)
(* C17: sched_setaffinity is neutered                                      *)
(* ---------------------------------------------------------------------- *)
\* C17: sched_setaffinity is neutered: the kernel executes the call with
\* arg1 = -1 and PREVENT_SWITCH, and after the exit hook arg1 equals its
\* entry value and the syscall result register is 0, whatever the kernel
\* returned.
C17_AffinityNeutered ==
  /\ (pc \in {"kernel", "exit"} /\ inp.no = "sched_setaffinity" /\ task.ok) =>
       /\ RegSigned(inp.arch, task.regs.arg[1]) = -1
       /\ task.sw = PREVENT_SWITCH
  /\ (pc = "done" /\ hook = "exit" /\ inp.no = "sched_setaffinity" /\ task.ok) =>
       /\ task.regs.arg[1] = entry.regs.arg[1]
       /\ task.regs.result = 0

(* ---------------------------------------------------------------------- *)
(* C19: syscalls the preparer does not list                                *)
(* ---------------------------------------------------------------------- *)
\* the enter hook has run, once or again, for a syscall that is not
\* buffered and that the switch of the preparer does not list, or whose
\* number is negative
UnlistedPrepared ==
  /\ pc = "kernel" /\ hook \in {"prepare", "prepare_again"}
  /\ inp.no \in {"getpid", "unknown", SyscallNegative} /\ ~inp.desched

C19_WitnessNegative == UnlistedPrepared /\ inp.no = SyscallNegative /\ hook = "prepare"

(* ---------------------------------------------------------------------- *)
(* C18: unknown sub-commands                                               *)
(* ---------------------------------------------------------------------- *)
\* the families with a sub-dispatch
Families == {"fcntl", "fcntl64", "prctl", "socketcall", "ipc", "quotactl", "futex"}

\* the sub-command of syscall i as the kernel ABI defines it
SubCommand(i) ==
  CASE i.no \in {"fcntl", "fcntl64"} -> RegSigned(i.arch, i.args[2])
    [] i.no = "futex" -> (RegSigned(i.arch, i.args[2]) % Mod32) % (FUTEX_CMD_MASK + 1)
    [] i.no = "quotactl" -> (RegSigned(i.arch, i.args[1]) % Mod32) \div 2^SUBCMDSHIFT
    [] OTHER -> RegSigned(i.arch, i.args[1])

\* the sub-commands the dispatch of the family lists
Listed(no) ==
  CASE no \in {"fcntl", "fcntl64"} ->
         {DUPFD, GETFD, GETFL, SETFL, SETFD, SETLK, SETLK64, SETOWN, SETOWN_EX, SETSIG,
          GETLK, GETLK64, GETOWN_EX, SETLKW, SETLKW64}
    [] no = "futex" ->
         {FUTEX_WAIT, FUTEX_WAIT_BITSET, FUTEX_CMP_REQUEUE, FUTEX_WAKE_OP, FUTEX_WAKE}
    [] no = "prctl" ->
         {PR_GET_ENDIAN, PR_GET_FPEMU, PR_GET_FPEXC, PR_GET_PDEATHSIG, PR_GET_TSC,
          PR_GET_UNALIGN, PR_GET_NAME, PR_SET_NAME, PR_SET_SECCOMP}
    [] no = "quotactl" ->
         {Q_GETQUOTA, Q_GETINFO, Q_GETFMT, Q_SETQUOTA, Q_QUOTAON, Q_QUOTAOFF, Q_SETINFO,
          Q_SYNC}
    [] no = "ipc" -> {MSGCTL, MSGGET, MSGSND, MSGRCV}
    [] no = "socketcall" -> SYS_SOCKET..SYS_SENDMMSG

\* the enter hook has run for a syscall of one of the families in fams
FamilyPrepared(fams) ==
  /\ pc = "kernel" /\ hook \in {"prepare", "prepare_again"} /\ task.ok
  /\ inp.no \in fams /\ ~inp.desched

\* what C18 says of the state after the enter hook
SubCommandHandled ==
  IF SubCommand(inp) \in Listed(inp.no)
  THEN task.st.expect_errno = 0
  ELSE /\ task.st.expect_errno = EINVAL
       /\ task.st.param_list = << >>
       /\ task.sw = PREVENT_SWITCH

\* C18: For fcntl, prctl, socketcall, ipc, quotactl and futex, a sub-command
\* that the dispatch does not list sets expect_errno = EINVAL, registers no
\* parameter and yields PREVENT_SWITCH; a listed sub-command never sets
\* expect_errno.
C18_UnknownSubCommand == FamilyPrepared(Families) => SubCommandHandled

\* the same for the families other than quotactl
C18_ExceptQuotactl == FamilyPrepared(Families \ {"quotactl"}) => SubCommandHandled

\* an unlisted sub-command of each family is reached
C18_Unlisted(no) == FamilyPrepared({no}) /\ SubCommand(inp) \notin Listed(no)

(* ---------------------------------------------------------------------- *)
(* C20: MSG_DONTWAIT and the message calls                                 *)
(* ---------------------------------------------------------------------- *)
\* syscall i is recvmsg, recvmmsg, sendmsg or sendmmsg, called directly or
\* through socketcall
MsgCalls(i) ==
  /\ ~i.desched
  /\ \/ i.no \in {"recvmsg", "recvmmsg", "sendmsg", "sendmmsg"}
     \/ i.no = "socketcall" /\ i.arch = X86
        /\ i.args[1] \in {SYS_RECVMSG, SYS_RECVMMSG, SYS_SENDMSG, SYS_SENDMMSG}

\* where the kernel ABI puts the flags of the call: 0 when they are in the
\* third or fourth argument register, else the address of the flags field
\* of socketcall's argument block
FlagsCell(i) ==
  CASE i.no # "socketcall" -> 0
    [] i.args[1] \in {SYS_RECVMSG, SYS_SENDMSG} -> i.args[2] + socketcall_args.recvmsg.flags
    [] OTHER -> i.args[2] + socketcall_args.recvmmsg.flags
FlagsReg(i) == IF i.no \in {"recvmsg", "sendmsg"} THEN 3 ELSE 4

\* the flags argument of the call in flight, at its entry
FlagsArgument ==
  IF inp.no = "socketcall" THEN entry.mem[FlagsCell(inp)] ELSE entry.regs.arg[FlagsReg(inp)]

\* the task at the entry of the same call with MSG_DONTWAIT set if it was
\* clear and cleared if it was set
Toggle(x) == IF HasBit(x, MSG_DONTWAIT) THEN x - MSG_DONTWAIT ELSE x + MSG_DONTWAIT
OtherEntry ==
  IF inp.no = "socketcall"
  THEN [entry EXCEPT !.mem[FlagsCell(inp)] = Toggle(@)]
  ELSE [entry EXCEPT !.regs.arg[FlagsReg(inp)] = Toggle(@)]

\* the enter hook has run for a message call
MsgPrepared(calls) ==
  /\ pc = "kernel" /\ hook = "prepare" /\ kw = 0 /\ task.ok
  /\ MsgCalls(inp) /\ inp.no \in calls

\* the parameters as they were registered: the location of a size read
\* from memory is left out, since done_preparing moves it to scratch when
\* it enables scratch
Registered(param_list) ==
  [n \in 1..Len(param_list) |->
     [dest |-> param_list[n].dest, scratch |-> param_list[n].scratch,
      mode |-> param_list[n].mode, ptr_in_reg |-> param_list[n].ptr_in_reg,
      ptr_in_memory |-> param_list[n].ptr_in_memory,
      max_size |-> param_list[n].num_bytes.max_size,
      read_size |-> param_list[n].num_bytes.read_size,
      from_syscall |-> param_list[n].num_bytes.from_syscall,
      from_mem |-> param_list[n].num_bytes.mem_ptr # Null]]

\* what C20 says of the state after the enter hook; the scratch area is
\* large enough for these calls, so that the hint is the decision
DontwaitDecides ==
  /\ Requested <= ScratchSize
  /\ task.sw = IF HasBit(FlagsArgument, MSG_DONTWAIT) THEN PREVENT_SWITCH ELSE ALLOW_SWITCH
  /\ Registered(task.st.param_list) =
       Registered(rec_prepare_syscall_arch(get_or_create(OtherEntry), inp.arch, inp.no,
                                           inp.desched, inp.files).st.param_list)

\* C20: recvmsg, recvmmsg, sendmsg and sendmmsg, called directly or through
\* socketcall, are given the hint ALLOW_SWITCH exactly when MSG_DONTWAIT is
\* not set in the call's flags argument, and PREVENT_SWITCH when it is set;
\* the registered parameters are the same in both cases.
C20_MsgDontwait ==
  MsgPrepared({"recvmsg", "recvmmsg", "sendmsg", "sendmmsg", "socketcall"})
    => DontwaitDecides

\* the same for every message call but the direct sendmsg
C20_ExceptSendmsg ==
  MsgPrepared({"recvmsg", "recvmmsg", "sendmmsg", "socketcall"}) => DontwaitDecides

(* ---------------------------------------------------------------------- *)
(* C27: done_preparing without scratch                                     *)
(* ---------------------------------------------------------------------- *)
\* the preparers that write a register themselves, before done_preparing
WritesArg1 == {"clone", "sched_setaffinity", "execve"}

\* the enter hook has run for the first time and called done_preparing
Prepared ==
  /\ pc = "kernel" /\ hook = "prepare" /\ kw = 0 /\ task.ok
  /\ task.has_state /\ task.st.preparation_done

\* the state before done_preparing, for a state it left without scratch
Unprepared(k) ==
  [k EXCEPT !.st.preparation_done = FALSE, !.st.switchable = UNSET_SWITCH,
            !.sw = UNSET_SWITCH]

\* done_preparing(sw) applied to k leaves scratch off, the registers and
\* the memory alone when it decides PREVENT_SWITCH or has no parameter
NoScratchNoWrite(k, sw) ==
  (done_preparing(k, sw).st.switchable = PREVENT_SWITCH \/ k.st.param_list = << >>) =>
     /\ done_preparing(k, sw).ok
     /\ ~done_preparing(k, sw).st.scratch_enabled
     /\ done_preparing(k, sw).regs = k.regs
     /\ done_preparing(k, sw).mem = k.mem
     /\ done_preparing(k, sw).st.param_list = k.st.param_list

\* C27 (scratch disabled): when done_preparing decides PREVENT_SWITCH or
\* the parameter list is empty, scratch_enabled stays false and no tracee
\* register and no tracee memory is written; scratch_enabled implies
\* switchable = ALLOW_SWITCH and a non-empty parameter list.
C27_NoScratchNoWrite ==
  /\ (task.has_state /\ task.st.scratch_enabled) =>
        (task.st.switchable = ALLOW_SWITCH /\ task.st.param_list # << >>
         /\ task.st.preparation_done)
  /\ (Prepared /\ (task.st.switchable = PREVENT_SWITCH \/ task.st.param_list = << >>)) =>
        /\ ~task.st.scratch_enabled
        /\ task.mem = entry.mem
        /\ task.regs.result = entry.regs.result /\ task.regs.sp = entry.regs.sp
        /\ \A a \in 1..6 : (a # 1 \/ inp.no \notin WritesArg1) =>
                               task.regs.arg[a] = entry.regs.arg[a]
        /\ \A sw \in {ALLOW_SWITCH, PREVENT_SWITCH} : NoScratchNoWrite(Unprepared(task), sw)

\* C27 witness: done_preparing(PREVENT_SWITCH) has returned for a syscall
\* with a registered parameter, and scratch is not enabled.
C27_Witness ==
  /\ Prepared /\ inp.no = "fcntl" /\ ~inp.desched
  /\ task.st.switchable = PREVENT_SWITCH /\ task.st.param_list # << >>
  /\ ~task.st.scratch_enabled /\ task.regs = entry.regs

\* C27 witness of the downgrade: ALLOW_SWITCH was asked for with more
\* scratch than there is, and scratch is not enabled.
C27_WitnessDowngrade ==
  /\ Prepared /\ HintAllowSwitch(inp) /\ Requested > ScratchSize
  /\ task.st.switchable = PREVENT_SWITCH /\ ~task.st.scratch_enabled

\* C27 witness of the converse: scratch is enabled.
C27_WitnessEnabled ==
  /\ Prepared /\ task.st.scratch_enabled /\ task.st.switchable = ALLOW_SWITCH
(* ---------------------------------------------------------------------- *)
(* C29: IN_OUT_NO_SCRATCH                                                  *)
(* ---------------------------------------------------------------------- *)
\* the parameters of mode IN_OUT_NO_SCRATCH in a list
NoScratchParams(param_list) ==
  {i \in 1..Len(param_list) : param_list[i].mode = IN_OUT_NO_SCRATCH}

\* a futex, whose parameters are all of mode IN_OUT_NO_SCRATCH, is in flight
FutexInKernel == pc = "kernel" /\ task.ok /\ inp.no = "futex" /\ ~inp.desched

\* C29 (IN_OUT_NO_SCRATCH): such a parameter has no scratch address and no
\* pointer location; registering it leaves the scratch cursor where it
\* was; while the syscall runs, with scratch enabled or not, the registers
\* are those of the entry and only the parameters' own cells change; the
\* finalizer records size bytes read from dest and writes nothing.
C29_NoScratchMode ==
  /\ task.has_state =>
       \A i \in NoScratchParams(task.st.param_list) :
          /\ task.st.param_list[i].scratch = Null
          /\ task.st.param_list[i].ptr_in_reg = 0
          /\ task.st.param_list[i].ptr_in_memory = Null
          /\ task.st.param_list[i].dest # Null
  /\ FutexInKernel =>
       /\ NoScratchParams(task.st.param_list) = 1..Len(task.st.param_list)
       /\ task.st.scratch = task.scratch_ptr
       /\ task.regs = entry.regs
       /\ \A a \in Addr :
            task.mem[a] # entry.mem[a] =>
              \E i \in 1..Len(task.st.param_list) : ParamContains(task.st.param_list[i], a)
       /\ \A i \in 1..Len(task.st.param_list) :
            KernelBase(task, i, msghdr.size) = task.st.param_list[i].dest
  /\ (Finalized /\ inp.no = "futex") =>
       /\ Len(task.trace) = Len(FinalParams)
       /\ \A i \in 1..Len(FinalParams) :
            task.trace[i] = [addr |-> FinalParams[i].dest,
                             data |-> Bytes(prev.mem, FinalParams[i].dest, int_t.size)]
       /\ task.mem = prev.mem
       /\ task.regs = prev.regs

\* C29 witness: a futex WAIT had scratch enabled, the kernel wrote the
\* futex word, and the exit hook recorded the word at its own address.
C29_Witness ==
  /\ Finalized /\ hook = "exit" /\ inp.no = "futex" /\ inp.args[2] = FUTEX_WAIT
  /\ prev.st.scratch_enabled /\ prev.st.switchable = ALLOW_SWITCH /\ kw > 0
  /\ task.trace = <<[addr |-> FUTEX, data |-> <<KernelValue>>]>>
  /\ task.regs.arg[1] = FUTEX

\* C29 witness with two parameters: FUTEX_WAKE_OP has recorded both words.
C29_WitnessTwo ==
  /\ Finalized /\ inp.no = "futex" /\ Len(FinalParams) = 2 /\ Len(task.trace) = 2
(* ---------------------------------------------------------------------- *)
(* C30: well-formed parameters                                             *)
(* ---------------------------------------------------------------------- *)
Modes == {IN_ONLY, OUT, IN_OUT, IN_OUT_NO_SCRATCH}

\* a well-formed entry of param_list
WellFormed(param) ==
  /\ param.dest # Null
  /\ IF param.mode = IN_OUT_NO_SCRATCH
     THEN param.ptr_in_reg = 0 /\ param.ptr_in_memory = Null
     ELSE (param.ptr_in_reg # 0) # (param.ptr_in_memory # Null)

\* the state the preparer starts its registrations with
AtRegistration == init_state(get_or_create(entry))

\* reg_parameter on argument register a, in mode mode, at the start of the
\* preparer: a null register appends nothing and returns null, any other
\* appends one well-formed entry and returns the register
RegParameterOk(a, mode) ==
  IF entry.regs.arg[a] = Null
  THEN /\ reg_parameter(AtRegistration, a, ParamSize(1), mode) = AtRegistration
       /\ reg_parameter_ret(AtRegistration, a) = Null
  ELSE /\ Len(reg_parameter(AtRegistration, a, ParamSize(1), mode).st.param_list) = 1
       /\ WellFormed(reg_parameter(AtRegistration, a, ParamSize(1), mode).st.param_list[1])
       /\ reg_parameter_ret(AtRegistration, a) = entry.regs.arg[a]

\* mem_ptr_parameter on the pointer stored at address p, likewise
MemPtrParameterOk(p, mode) ==
  IF entry.mem[p] = Null
  THEN /\ mem_ptr_parameter(AtRegistration, p, ParamSize(1), mode) = AtRegistration
       /\ mem_ptr_parameter_ret(AtRegistration, p) = Null
  ELSE /\ Len(mem_ptr_parameter(AtRegistration, p, ParamSize(1), mode).st.param_list) = 1
       /\ WellFormed(mem_ptr_parameter(AtRegistration, p, ParamSize(1), mode).st.param_list[1])
       /\ mem_ptr_parameter_ret(AtRegistration, p) = entry.mem[p]

\* the pointers the preparer of syscall i registers without looking at them
\* first, as <<register, 0>> or <<0, address of the pointer>>
RegisteredPointers(i) ==
  CASE i.no = "nanosleep" -> {<<2, 0>>}
    [] i.no = "recvfrom" -> {<<2, 0>>, <<5, 0>>}
    [] i.no = "recvmsg" -> {<<2, 0>>, <<0, i.args[2] + msghdr.msg_name>>,
                            <<0, i.args[2] + msghdr.msg_control>>}
    [] i.no \in {"read", "accept", "prctl", "quotactl"} -> {<<2, 0>>}
    [] OTHER -> {}

\* C30 (well-formed parameters): every entry of param_list has a non-null
\* dest, exactly one of ptr_in_reg / ptr_in_memory when its mode is not
\* IN_OUT_NO_SCRATCH and neither when it is; a registration whose pointer
\* is null appends nothing and returns null.
C30_WellFormedParams ==
  /\ task.has_state => \A n \in 1..Len(task.st.param_list) : WellFormed(task.st.param_list[n])
  /\ (pc = "kernel" /\ ~inp.desched) =>
       /\ \A a \in 1..6, mode \in Modes : RegParameterOk(a, mode)
       /\ \A mode \in Modes :
            \A p \in {MSG + msghdr.msg_name, MSG + msghdr.msg_control, MSG + msghdr.msg_iov} :
               MemPtrParameterOk(p, mode)
       /\ (hook = "prepare" /\ task.ok) =>
            \A r \in RegisteredPointers(inp) :
               (IF r[1] # 0 THEN entry.regs.arg[r[1]] ELSE entry.mem[r[2]]) = Null =>
                  \A n \in 1..Len(task.st.param_list) :
                     /\ task.st.param_list[n].ptr_in_reg # r[1] \/ r[1] = 0
                     /\ task.st.param_list[n].ptr_in_memory # r[2] \/ r[2] = 0

\* C30 witness: a recvmsg with a null msg_name and a null msg_control has
\* registered the msghdr by register and the iovec array and the buffers by
\* pointers in memory, and nothing for the two null pointers.
C30_Witness ==
  /\ JustPrepared /\ inp.no = "recvmsg" /\ inp.name = Null
  /\ entry.mem[MSG + msghdr.msg_name] = Null
  /\ Len(task.st.param_list) >= 2
  /\ \E n \in 1..Len(task.st.param_list) : task.st.param_list[n].ptr_in_reg # 0
  /\ \E n \in 1..Len(task.st.param_list) : task.st.param_list[n].ptr_in_memory # Null
  /\ \A n \in 1..Len(task.st.param_list) :
        task.st.param_list[n].ptr_in_memory # MSG + msghdr.msg_name

\* C30 witness for a register: a nanosleep with a null rem registered
\* nothing.
C30_WitnessNullRegister ==
  /\ JustPrepared /\ inp.no = "nanosleep" /\ inp.args[2] = Null
  /\ task.st.param_list = << >>
(* ---------------------------------------------------------------------- *)
(* C26: the mode of nanosleep's rem                                        *)
(* ---------------------------------------------------------------------- *)
\* a nanosleep with a rem argument
NanosleepRem == inp.no = "nanosleep" /\ ~inp.desched /\ inp.args[2] # Null

\* C26 as the specification states it: rem is registered in mode IN_OUT,
\* its scratch area starts with the tracee's rem bytes, and when the kernel
\* wrote nothing to rem the tracee's rem is after the exit or restart hook
\* what it was at entry.
C26_NanosleepRemInOut ==
  /\ (JustPrepared /\ NanosleepRem) =>
       /\ task.st.param_list[1].mode = IN_OUT
       /\ Bytes(task.mem, task.st.param_list[1].scratch, timespec.size)
            = Bytes(entry.mem, inp.args[2], timespec.size)
  /\ (pc = "done" /\ task.ok /\ NanosleepRem /\ kw = 0) =>
       Bytes(task.mem, inp.args[2], timespec.size)
         = Bytes(entry.mem, inp.args[2], timespec.size)

\* what the code does instead: rem has mode OUT, scratch keeps the bytes it
\* had, and a write-back without a kernel write stores those bytes in rem
C26_RemIsOut ==
  /\ (JustPrepared /\ NanosleepRem) =>
       /\ task.st.param_list[1].mode = OUT
       /\ Bytes(task.mem, task.st.param_list[1].scratch, timespec.size)
            = Bytes(entry.mem, task.st.param_list[1].scratch, timespec.size)
  /\ (pc = "done" /\ task.ok /\ NanosleepRem /\ kw = 0 /\ task.finalized = "WRITE_BACK") =>
       Bytes(task.mem, inp.args[2], timespec.size)
         = Bytes(entry.mem, prev.st.param_list[1].scratch, timespec.size)
(* ---------------------------------------------------------------------- *)
(* C25: a syscall with a syscallbuf record                                 *)
(* ---------------------------------------------------------------------- *)
\* the memory record of the extra data of the syscallbuf record
SyscallbufRecord ==
  [addr |-> SyscallbufData, data |-> Bytes(prev.mem, SyscallbufData, SyscallbufLen)]

\* C25 (syscallbuf record): with a desched record at syscall entry the
\* preparer registers no parameter, does not call done_preparing, sets no
\* expect_errno and changes no register and no memory of the tracee; the
\* exit hook records the extra data of the record, does not run
\* process_syscall_results, completes whatever the result is, and destroys
\* the state.
C25_SyscallbufBypass ==
  /\ (pc = "kernel" /\ inp.desched /\ task.ok) =>
       /\ task.has_state
       /\ task.st.param_list = << >>
       /\ ~task.st.scratch_enabled /\ ~task.st.preparation_done
       /\ task.st.expect_errno = 0
       /\ task.st.scratch = task.scratch_ptr
       /\ task.regs = entry.regs
       /\ task.mem = entry.mem
  /\ (pc = "done" /\ hook = "exit" /\ inp.desched) =>
       /\ task.ok
       /\ task.trace = <<SyscallbufRecord>>
       /\ task.finalized = "none"
       /\ ~task.has_state
       /\ task.regs = prev.regs
       /\ task.mem = prev.mem

\* C25 witness: the exit hook has recorded the extra data of a buffered
\* fcntl with a command the dispatch does not list, which returned 0.
C25_Witness ==
  /\ pc = "done" /\ hook = "exit" /\ inp.desched /\ task.ok
  /\ inp.no = "fcntl" /\ inp.args[2] = 9 /\ prev.regs.result = 0
  /\ task.trace = <<SyscallbufRecord>> /\ ~task.has_state

\* C25 witness: a buffered read was descheduled and is in the kernel with
\* nothing registered.
C25_WitnessRead ==
  /\ pc = "kernel" /\ inp.desched /\ task.ok /\ inp.no = "read"
  /\ task.st.param_list = << >> /\ task.sw = ALLOW_SWITCH
(* ---------------------------------------------------------------------- *)
(* C28: relocate_pointer_to_scratch                                        *)
(* ---------------------------------------------------------------------- *)
\* the registered parameters whose buffer holds address p, the end of the
\* buffer being a tracee address
Holders(param_list, p) ==
  {j \in 1..Len(param_list) :
     /\ param_list[j].dest <= p
     /\ p < (param_list[j].dest + param_list[j].num_bytes.max_size) % Mod64}

\* a size location that done_preparing has not moved to scratch
Unrelocated(param) == param.num_bytes.mem_ptr # Null /\ ~InScratch(param.num_bytes.mem_ptr)

\* a registered pointer slot or size location lies in no registered buffer
\* or in several
BadPointer(param_list) ==
  \E i \in 1..Len(param_list) :
     \/ /\ param_list[i].ptr_in_memory # Null
        /\ Cardinality(Holders(param_list, param_list[i].ptr_in_memory)) # 1
     \/ /\ Unrelocated(param_list[i])
        /\ Cardinality(Holders(param_list, param_list[i].num_bytes.mem_ptr)) # 1

\* one parameter registered through the pointer stored at address p, which
\* lies in no registered buffer, and then done_preparing(ALLOW_SWITCH)
LonePointer(p) ==
  done_preparing(mem_ptr_parameter(AtRegistration, p, ParamSize(1), OUT), ALLOW_SWITCH)

\* two registered buffers that both hold the pointer stored at address p,
\* the buffer it points to, and then done_preparing(ALLOW_SWITCH)
SharedPointer(p) ==
  done_preparing(
    mem_ptr_parameter(
      reg_parameter(reg_parameter(AtRegistration, 2, ParamSize(msghdr.size), IN_ONLY),
                    2, ParamSize(msghdr.size), IN_ONLY),
      p, ParamSize(1), OUT),
    ALLOW_SWITCH)

\* C28 (pointer relocation): relocate_pointer_to_scratch(p) is
\* scratch + (p - dest) of the one parameter whose buffer holds p, and
\* done_preparing with scratch enabled aborts when a registered pointer
\* slot or size location lies in no registered buffer or in several.
C28_Relocation ==
  /\ (pc = "kernel" /\ hook = "prepare" /\ task.has_state /\ task.st.scratch_enabled
        /\ BadPointer(task.st.param_list)) => ~task.ok
  /\ (JustPrepared /\ task.st.scratch_enabled) =>
       /\ \A i \in 1..Len(task.st.param_list) :
            task.st.param_list[i].ptr_in_memory # Null =>
              \E j \in 1..Len(task.st.param_list) :
                 /\ Holders(task.st.param_list, task.st.param_list[i].ptr_in_memory) = {j}
                 /\ task.mem[task.st.param_list[j].scratch
                              + (task.st.param_list[i].ptr_in_memory
                                 - task.st.param_list[j].dest)]
                      = task.st.param_list[i].scratch
       /\ \A p \in Addr :
            \A j \in 1..Len(task.st.param_list) :
               Holders(task.st.param_list, p) = {j} =>
                 relocate_pointer_to_scratch(task.st.param_list, p)
                   = task.st.param_list[j].scratch + (p - task.st.param_list[j].dest)
  /\ (JustPrepared /\ inp.no = "recvmsg" /\ ~inp.desched /\ entry.regs.arg[2] = MSG) =>
       /\ ~LonePointer(MSG + msghdr.msg_iov).ok
       /\ ~SharedPointer(MSG + msghdr.msg_iov).ok

\* C28 witness: recvfrom was given a buffer that covers its addrlen; the
\* size location lies in two registered buffers and done_preparing aborted.
C28_Witness ==
  /\ pc = "kernel" /\ hook = "prepare" /\ ~task.ok
  /\ inp.no = "recvfrom" /\ task.st.scratch_enabled
  /\ \E i \in 1..Len(task.st.param_list) :
        /\ Unrelocated(task.st.param_list[i])
        /\ Cardinality(Holders(task.st.param_list, task.st.param_list[i].num_bytes.mem_ptr)) = 2

\* C28 witness of a relocation: the pointer slots of a recvmsg were
\* relocated into the scratch copy of the msghdr.
C28_WitnessRelocated ==
  /\ JustPrepared /\ task.st.scratch_enabled /\ inp.no = "recvmsg"
  /\ \E i \in 1..Len(task.st.param_list) : task.st.param_list[i].ptr_in_memory # Null
(* ---------------------------------------------------------------------- *)
(* C23: the auxv table after a successful execve                           *)
(* ---------------------------------------------------------------------- *)
\* the exit hook has run for an execve that succeeded
ExecSucceeded ==
  /\ pc = "done" /\ hook = "exit" /\ inp.no = "execve" /\ ~inp.desched
  /\ prev.regs.result = 0

\* where the kernel laid out the auxv table: after argc, one argv pointer,
\* its null, one envp pointer and its null
AuxvAt == ExecStack + 5

\* the first n auxv keys on the stack the kernel laid out
AuxvKeysAt(mem, n) == [i \in 1..n |-> mem[AuxvAt + 2 * (i - 1)]]

\* the keys on the new stack are those of the architecture's table, in
\* order, and AT_RANDOM follows
AuxvAsExpected ==
  /\ AuxvKeysAt(prev.mem, Len(elf_auxv_ordering(inp.arch))) = elf_auxv_ordering(inp.arch)
  /\ prev.mem[AuxvAt + 2 * Len(elf_auxv_ordering(inp.arch))] = AT_RANDOM

\* C23 (auxv ordering): after a successful execve the exit hook completes
\* exactly when the auxv keys on the new stack are those of the
\* architecture's table in order (X86 from AT_SYSINFO, X64 from
\* AT_SYSINFO_EHDR) followed by AT_RANDOM, and aborts otherwise; when it
\* completes it has recorded the 16 bytes at the AT_RANDOM value and set up
\* a fresh scratch region.
C23_AuxvOrdering ==
  ExecSucceeded =>
    /\ task.ok <=> AuxvAsExpected
    /\ elf_auxv_ordering(X86)[1] = AT_SYSINFO
    /\ elf_auxv_ordering(X64)[1] = AT_SYSINFO_EHDR
    /\ task.ok =>
         /\ task.trace = <<[addr |-> prev.mem[AuxvAt + 2 * Len(elf_auxv_ordering(inp.arch)) + 1],
                            data |-> Bytes(prev.mem, RandAddr, 16)]>>
         /\ Len(task.events) = 2
         /\ task.events[2] = [type |-> "mapped_region", start |-> task.scratch_ptr,
                              end |-> task.scratch_ptr + ScratchSize]
         /\ ~task.has_state

\* C23 witness: an X86 exec succeeded with the expected table; the hook
\* recorded the random bytes and mapped scratch.
C23_Witness ==
  /\ ExecSucceeded /\ task.ok /\ inp.arch = X86 /\ AuxvAsExpected
  /\ prev.mem[AuxvAt] = AT_SYSINFO
  /\ Len(task.trace) = 1 /\ Len(task.trace[1].data) = 16

\* C23 witnesses of the abort: two keys exchanged; AT_RANDOM missing.
C23_WitnessSwapped ==
  /\ ExecSucceeded /\ ~task.ok /\ inp.arch = X64
  /\ prev.mem[AuxvAt] = AT_HWCAP /\ prev.mem[AuxvAt + 2] = AT_SYSINFO_EHDR
C23_WitnessNoRandom ==
  /\ ExecSucceeded /\ ~task.ok
  /\ AuxvKeysAt(prev.mem, Len(elf_auxv_ordering(inp.arch))) = elf_auxv_ordering(inp.arch)
(* ---------------------------------------------------------------------- *)
(* C24: open of a blacklisted path                                         *)
(* ---------------------------------------------------------------------- *)
\* an open is in flight or has ended; its path is on the blacklist
OpenCall == inp.no = "open" /\ ~inp.desched
OpenBlacklisted ==
  OpenCall /\ read_c_str(entry.mem, entry.regs.arg[1]) \in BlacklistedNames

\* C24 as the specification states it: the enter hook sets the result of
\* an open of a blacklisted path to -ENOENT, and no hook alters the result
\* of an open of another path.
C24_OpenBlacklistAtEntry ==
  /\ (pc = "kernel" /\ hook = "prepare" /\ OpenBlacklisted) =>
       task.regs.result = Neg(inp.arch, ENOENT)
  /\ (OpenCall /\ ~OpenBlacklisted /\ hook \in {"prepare", "prepare_again", "exit", "restart"}
        /\ pc \in {"kernel", "done"}) =>
       task.regs.result = prev.regs.result

\* what the code does: the enter hook leaves the result register alone and
\* the kernel runs the open; the exit hook replaces whatever the kernel
\* returned for a blacklisted path by -ENOENT.
C24_OpenBlacklistAtExit ==
  /\ (pc = "kernel" /\ OpenCall) => task.regs.result = entry.regs.result
  /\ (pc = "done" /\ hook = "exit" /\ OpenBlacklisted) =>
       (task.ok /\ task.regs.result = Neg(inp.arch, ENOENT))
  /\ (OpenCall /\ ~OpenBlacklisted /\ hook \in {"prepare", "prepare_again", "exit", "restart"}
        /\ pc \in {"kernel", "done"}) =>
       task.regs.result = prev.regs.result

\* an open of a blacklisted path that the kernel carried out (it returned
\* a file descriptor) and whose result the exit hook replaced
C24_OpenedThenHidden ==
  /\ pc = "done" /\ hook = "exit" /\ OpenBlacklisted
  /\ prev.regs.result = 3 /\ task.regs.result = Neg(inp.arch, ENOENT)
(* ---------------------------------------------------------------------- *)
(* C21: ioctl never guesses                                                *)
(* ---------------------------------------------------------------------- *)
IrregularIoctls ==
  {SIOCETHTOOL, SIOCGIFCONF, SIOCGIFADDR, SIOCGIFFLAGS, SIOCGIFINDEX, SIOCGIFMTU,
   SIOCGIFNAME, SIOCGIWRATE, TCGETS, TIOCINQ, TIOCGWINSZ}

\* the enter hook of an ioctl has run for the first time
IoctlPrepared == pc = "kernel" /\ hook = "prepare" /\ inp.no = "ioctl" /\ ~inp.desched
Request == RegSigned(inp.arch, inp.args[2]) % Mod32
Argp == inp.args[3]

\* one entry of a schema
Entry(dest, max_size, mode, ptr_in_reg, ptr_in_memory) ==
  [dest |-> dest, max_size |-> max_size, mode |-> mode, ptr_in_reg |-> ptr_in_reg,
   ptr_in_memory |-> ptr_in_memory]
\* the object at arg3, and the buffer whose address is at offset off of it
AtArgp(max_size, mode) ==
  IF Argp = Null THEN << >> ELSE <<Entry(Argp, max_size, mode, 3, Null)>>
Nested(off, max_size) ==
  IF entry.mem[Argp + off] = Null THEN << >>
  ELSE <<Entry(entry.mem[Argp + off], max_size, OUT, 0, Argp + off)>>

\* the fixed schema of an irregular request
IoctlSchema(request) ==
  CASE request = SIOCETHTOOL ->
         AtArgp(ifreq.size, IN_ONLY) \o Nested(ifreq.ifru_data, sizeof.ethtool_cmd)
    [] request = SIOCGIFCONF ->
         AtArgp(ifconf.size, OUT)
           \o Nested(ifconf.ifcu_buf, entry.mem[Argp + ifconf.ifc_len])
    [] request \in {SIOCGIFADDR, SIOCGIFFLAGS, SIOCGIFINDEX, SIOCGIFMTU, SIOCGIFNAME} ->
         AtArgp(ifreq.size, OUT)
    [] request = SIOCGIWRATE -> AtArgp(sizeof.iwreq, OUT)
    [] request = TCGETS -> AtArgp(sizeof.termios, OUT)
    [] request = TIOCINQ -> AtArgp(int_t.size, OUT)
    [] request = TIOCGWINSZ -> AtArgp(sizeof.winsize, OUT)

\* what the preparer registered
IoctlRegistered ==
  [n \in 1..Len(task.st.param_list) |->
     Entry(task.st.param_list[n].dest, task.st.param_list[n].num_bytes.max_size,
           task.st.param_list[n].mode, task.st.param_list[n].ptr_in_reg,
           task.st.param_list[n].ptr_in_memory)]

\* C21 (ioctl never guesses): after the enter hook of an ioctl, either the
\* recording is aborted, or the request is one of the listed irregular
\* requests and its fixed schema is registered, or the direction of the
\* request lacks the read bit and nothing is registered; whenever the
\* recording is not aborted the hook answers PREVENT_SWITCH.
C21_IoctlNeverGuesses ==
  (IoctlPrepared /\ task.ok) =>
    /\ task.sw = PREVENT_SWITCH
    /\ \/ Request \in IrregularIoctls /\ IoctlRegistered = IoctlSchema(Request)
       \/ /\ Request \notin IrregularIoctls
          /\ ~HasBit(IOC_DIR(Request), IOC_READ)
          /\ task.st.param_list = << >>

\* an irregular request with a nested buffer is registered (SIOCGIFCONF
\* with ifc_len = 2: the ifconf and its buffer of two cells)
C21_Witness ==
  /\ IoctlPrepared /\ task.ok /\ Request = SIOCGIFCONF
  /\ Len(task.st.param_list) = 2
  /\ task.st.param_list[2].num_bytes.max_size = 2
  /\ task.st.record_page_below_stack_ptr
\* a request without the read bit is let through with nothing registered
C21_WitnessNoRead ==
  /\ IoctlPrepared /\ task.ok /\ Request = DRM_IOCTL_I915_GEM_PWRITE
  /\ task.st.param_list = << >> /\ task.sw = PREVENT_SWITCH
\* a request with the read bit that no list names aborts the recording
C21_WitnessAbort ==
  /\ IoctlPrepared /\ ~task.ok /\ Request \notin UnhandledIoctls
  /\ HasBit(IOC_DIR(Request), IOC_READ)
\* so does one the code lists as unhandled
C21_WitnessFatal == IoctlPrepared /\ ~task.ok /\ Request = DRM_IOCTL_GET_MAGIC
\* and an ioctl on the desched counter
C21_WitnessDesched == IoctlPrepared /\ ~task.ok /\ inp.args[1] = DeschedFd
(* ---------------------------------------------------------------------- *)
(* C22: what the exit hook of mmap records                                 *)
(* ---------------------------------------------------------------------- *)
\* the exit hook of an mmap or mmap2 has run
MmapDone == pc = "done" /\ hook = "exit" /\ inp.no \in {"mmap", "mmap2"} /\ ~inp.desched
\* the arguments of the call: in a structure at arg1 for mmap on X86
MmapInStruct == inp.no = "mmap" /\ inp.arch = X86
MmapLength ==
  IF MmapInStruct THEN entry.mem[inp.args[1] + mmap_args.len] ELSE inp.args[2]
MmapFlags ==
  IF MmapInStruct THEN entry.mem[inp.args[1] + mmap_args.flags] ELSE inp.args[4]
\* the offset into the file, in cells: mmap takes it in bytes, mmap2 in pages
MmapOffset ==
  IF MmapInStruct THEN (entry.mem[inp.args[1] + mmap_args.offset] \div PageSize) * PageSize
  ELSE IF inp.no = "mmap" THEN (inp.args[6] \div PageSize) * PageSize
  ELSE inp.args[6] * PageSize
\* the page-rounded length
MmapSize == ((MmapLength + PageSize - 1) \div PageSize) * PageSize
MmapSucceeded == RegSigned(inp.arch, prev.regs.result) >= 0
MmapAnonymous == HasBit(MmapFlags, MAP_ANONYMOUS)
MmapRecordedLength == Min(inp.files.st_size - MmapOffset, MmapSize)
\* the mapping is registered in the address space of the task
MmapRegistered ==
  /\ Len(task.events) > Len(prev.events)
  /\ task.events[Len(task.events)].type = "vm_map"
  /\ task.events[Len(task.events)].start = prev.regs.result
  /\ task.events[Len(task.events)].end = prev.regs.result + MmapSize

\* a file mapping: the hook completes, the contents are recorded exactly on
\* RECORD_IN_TRACE, with a length of min(file_size - offset, size) that is
\* between 0 and size, and the mapping is registered
MmapFileRecorded ==
  /\ task.ok
  /\ 0 <= MmapRecordedLength /\ MmapRecordedLength <= MmapSize
  /\ task.trace =
       IF inp.files.mapped = RECORD_IN_TRACE
       THEN Append(prev.trace,
                   [addr |-> prev.regs.result,
                    data |-> Bytes(prev.mem, prev.regs.result, MmapRecordedLength)])
       ELSE prev.trace
  /\ MmapRegistered
\* a failed mmap: nothing recorded, nothing registered
MmapFailedIgnored ==
  (MmapDone /\ ~MmapSucceeded) =>
    task.ok /\ task.trace = prev.trace /\ task.events = prev.events
\* an anonymous mapping: registered, nothing recorded
MmapAnonymousRegistered ==
  (MmapDone /\ MmapSucceeded /\ MmapAnonymous) =>
    /\ task.ok /\ task.trace = prev.trace
    /\ MmapRegistered /\ Len(task.events) = Len(prev.events) + 1
    /\ task.events[Len(task.events)].resource = "anonymous"

\* C22 as the specification states it: after the exit hook of a successful
\* file-backed mmap the contents are recorded exactly when the trace
\* writer answered RECORD_IN_TRACE, the recorded length is
\* min(file_size - offset, page-rounded length) and lies between 0 and the
\* size of the mapping for every file size and offset; a failed mmap
\* records and registers nothing; an anonymous mapping is registered
\* without contents.
C22_MmapRecordedLength ==
  /\ (MmapDone /\ MmapSucceeded /\ ~MmapAnonymous) => MmapFileRecorded
  /\ MmapFailedIgnored
  /\ MmapAnonymousRegistered

\* what the code does: the same, for the mappings that start inside the
\* file (offset <= file_size) or whose contents are not recorded
C22_MmapWithinFile ==
  /\ (/\ MmapDone /\ MmapSucceeded /\ ~MmapAnonymous
      /\ (MmapOffset <= inp.files.st_size \/ inp.files.mapped = DONT_RECORD_IN_TRACE)) =>
       /\ task.ok
       /\ task.trace =
            IF inp.files.mapped = RECORD_IN_TRACE
            THEN Append(prev.trace,
                        [addr |-> prev.regs.result,
                         data |-> Bytes(prev.mem, prev.regs.result, MmapRecordedLength)])
            ELSE prev.trace
       /\ MmapRegistered
  /\ MmapFailedIgnored
  /\ MmapAnonymousRegistered

\* a mapping that starts past the end of the file and is to be recorded:
\* the length handed to record_remote is negative and the recording stops
C22_PastEndOfFile ==
  /\ MmapDone /\ MmapSucceeded /\ ~MmapAnonymous
  /\ inp.files.mapped = RECORD_IN_TRACE
  /\ MmapOffset > inp.files.st_size
  /\ MmapRecordedLength < 0
  /\ ~task.ok
\* a mapping that reaches past the end of the file is recorded up to it
C22_RecordedToEndOfFile ==
  /\ MmapDone /\ MmapSucceeded /\ ~MmapAnonymous /\ task.ok
  /\ inp.files.mapped = RECORD_IN_TRACE
  /\ MmapRecordedLength = 1 /\ MmapSize = 4
  /\ Len(task.trace[Len(task.trace)].data) = 1
\* an anonymous mapping and a failed one
C22_AnonymousMapped == MmapDone /\ MmapSucceeded /\ MmapAnonymous /\ task.ok
C22_MmapFailed == MmapDone /\ ~MmapSucceeded /\ task.ok
(* ---------------------------------------------------------------------- *)
(* C31: the saved entry registers                                          *)
(* ---------------------------------------------------------------------- *)
\* the enter hook of a syscall that saves its entry registers has run, for
\* the first time or again
SavesEntryRegisters ==
  /\ pc = "kernel" /\ hook \in {"prepare", "prepare_again"} /\ ~inp.desched
  /\ inp.no \in {"clone", "execve", "sched_setaffinity"}
EntryRegistersSaved ==
  /\ task.has_state /\ task.st.has_entry_registers
  /\ task.st.syscall_entry_registers = entry.regs.arg

\* C31 as the specification states it: for clone, execve and
\* sched_setaffinity the saved entry registers are the registers the task
\* had at the entry of the syscall, after the first run of the preparer
\* and after every further run for the same syscall.
C31_EntryRegistersSaved == SavesEntryRegisters => EntryRegistersSaved

\* what the code does: the first run saves the registers of the entry, and
\* execve, which saves only once, keeps them on every run
C31_SavedOnFirstRun ==
  (SavesEntryRegisters /\ (hook = "prepare" \/ inp.no = "execve")) => EntryRegistersSaved

\* a second run of the preparer of clone saves the registers the first run
\* left: the flags without CLONE_UNTRACED
C31_CloneOverwritten ==
  /\ SavesEntryRegisters /\ hook = "prepare_again" /\ inp.no = "clone"
  /\ HasBit(entry.regs.arg[1], CLONE_UNTRACED)
  /\ task.st.syscall_entry_registers[1] = ClearBit(entry.regs.arg[1], CLONE_UNTRACED)
\* and of sched_setaffinity the invalid pid the first run stored
C31_AffinityOverwritten ==
  /\ SavesEntryRegisters /\ hook = "prepare_again" /\ inp.no = "sched_setaffinity"
  /\ task.st.syscall_entry_registers[1] = Neg(inp.arch, 1)
  /\ entry.regs.arg[1] # Neg(inp.arch, 1)
\* execve run again after it advanced arg1 keeps the registers of the entry
C31_ExecveKept ==
  /\ SavesEntryRegisters /\ hook = "prepare_again" /\ inp.no = "execve"
  /\ task.regs.arg[1] # entry.regs.arg[1] /\ EntryRegistersSaved
(* ---------------------------------------------------------------------- *)
(* C32: ParamSize::eval                                                    *)
(* ---------------------------------------------------------------------- *)
\* the sizes eval is applied to, and the amounts already consumed
EvalSizes ==
  [max_size : {0, 3, SizeMax}, mem_ptr : {Null, ADDRLEN, NullPage - 1},
   read_size : {0, 4, 8}, from_syscall : BOOLEAN]
EvalConsumed == {0, 1, 4}

\* the unsigned value of n bytes of v
Unsigned(v, n) == IF n = 4 THEN v % Mod32 ELSE v % Mod64
\* the dynamic sources of a size: the value at mem_ptr, the syscall result
EvalSources(size, k) ==
  (IF size.mem_ptr # Null /\ Mapped(size.mem_ptr)
   THEN {Unsigned(k.mem[size.mem_ptr], size.read_size)} ELSE {})
  \cup (IF size.from_syscall THEN {Unsigned(k.regs.result, size.read_size)} ELSE {})
\* the least element of a finite set of numbers
Least(S) == CHOOSE x \in S : \A y \in S : x <= y
\* the minimum of max_size and of what is left of each source
EvalValue(size, k, c) == Least({size.max_size} \cup {v - c : v \in EvalSources(size, k)})
\* eval aborts: a source with a read_size other than 4 and 8, a source
\* that cannot be read, more consumed than a source holds, no bound
EvalAborts(size, k, c) ==
  \/ (size.mem_ptr # Null \/ size.from_syscall) /\ size.read_size \notin {4, 8}
  \/ size.mem_ptr # Null /\ ~Mapped(size.mem_ptr)
  \/ \E v \in EvalSources(size, k) : c > v
  \/ EvalValue(size, k, c) = SizeMax
EvalAsStated(size, k, c) ==
  /\ eval(size, k, c).ok = ~EvalAborts(size, k, c)
  /\ eval(size, k, c).ok => eval(size, k, c).size = EvalValue(size, k, c)

\* what the parameters before parameter i consumed of its source
Consumed(i) ==
  SumSameSource(prev.st.param_list, task.sizes, i, 1)

\* C32 (ParamSize::eval): eval(already_consumed) is the minimum of
\* max_size, of the unsigned read_size-byte value at mem_ptr less
\* already_consumed when mem_ptr is set, and of the low read_size bytes of
\* the syscall result less already_consumed when the size comes from the
\* result; it aborts when already_consumed exceeds a source, when the
\* read_size of a source is neither 4 nor 8, and when the minimum is
\* size_t(-1).  Checked for every size of EvalSizes on the task as it is
\* when a syscall returns, and for the sizes the finalizer evaluated.
C32_ParamSizeEval ==
  /\ pc = "exit" =>
       \A size \in EvalSizes, c \in EvalConsumed : EvalAsStated(size, task, c)
  /\ (pc = "done" /\ hook \in {"exit", "restart"} /\ task.ok) =>
       \A i \in 1..Len(task.sizes) :
          task.sizes[i] = EvalValue(prev.st.param_list[i].num_bytes, prev, Consumed(i))

\* two parameters share the syscall result: the second gets what the first
\* left of it
C32_Witness ==
  /\ pc = "done" /\ hook = "exit" /\ task.ok
  /\ \E i \in 1..Len(task.sizes) :
        /\ prev.st.param_list[i].num_bytes.from_syscall
        /\ Consumed(i) > 0
        /\ task.sizes[i] =
             Unsigned(prev.regs.result, prev.st.param_list[i].num_bytes.read_size)
               - Consumed(i)
        /\ task.sizes[i] > 0
        /\ task.sizes[i] < prev.st.param_list[i].num_bytes.max_size
\* a size read from memory bounds the parameter
C32_WitnessMem ==
  /\ pc = "done" /\ hook = "exit" /\ task.ok
  /\ \E i \in 1..Len(task.sizes) :
        /\ prev.st.param_list[i].num_bytes.mem_ptr # Null
        /\ task.sizes[i] < prev.st.param_list[i].num_bytes.max_size
\* eval aborts when more was consumed than the syscall result holds, and
\* when nothing bounds the size
C32_WitnessAbort ==
  /\ pc = "exit" /\ task.regs.result = 3
  /\ ~eval([max_size |-> 3, mem_ptr |-> Null, read_size |-> 4, from_syscall |-> TRUE],
           task, 4).ok
  /\ ~eval([max_size |-> SizeMax, mem_ptr |-> Null, read_size |-> 0,
            from_syscall |-> FALSE], task, 0).ok
  /\ eval([max_size |-> 3, mem_ptr |-> Null, read_size |-> 4, from_syscall |-> TRUE],
          task, 1) = [ok |-> TRUE, size |-> 2]
(* ---------------------------------------------------------------------- *)
(* C33: the bytes the kernel did not write                                 *)
(* ---------------------------------------------------------------------- *)
\* the task as the first run of the enter hook left it
AfterEnterHook ==
  rec_prepare_syscall_arch(get_or_create(entry), inp.arch, inp.no, inp.desched, inp.files)
\* the parameters of the given modes whose dest buffer holds address a
Covering(a, modes) ==
  {i \in 1..Len(FinalParams) :
     /\ FinalParams[i].mode \in modes
     /\ a >= FinalParams[i].dest
     /\ a < FinalParams[i].dest + FinalParams[i].num_bytes.max_size}
\* the kernel left the scratch cell that stands for address a of parameter i
KernelLeft(i, a) ==
  prev.mem[FinalParams[i].scratch + (a - FinalParams[i].dest)]
    = AfterEnterHook.mem[FinalParams[i].scratch + (a - FinalParams[i].dest)]
\* the tracee addresses inside an OUT or IN_OUT buffer that the kernel did
\* not write through any parameter
Unwritten ==
  {a \in NullPage .. (ScratchPtr - 1) :
     /\ Covering(a, {OUT, IN_OUT}) # {}
     /\ \A i \in Covering(a, {OUT, IN_OUT}) : KernelLeft(i, a)}
FinalizedWithScratch == Finalized /\ hook \in {"exit", "restart"} /\ prev.st.scratch_enabled

\* C33 as stated: with scratch enabled, every byte of an OUT or IN_OUT
\* buffer of the tracee that the kernel did not write during the syscall
\* has after finalization the value it had at syscall entry, also when the
\* syscall failed and when the evaluated size exceeds what the kernel
\* wrote.
C33_UnwrittenBytesKept ==
  FinalizedWithScratch => \A a \in Unwritten : task.mem[a] = entry.mem[a]

\* what the code does: the bytes are kept where only IN_OUT parameters,
\* whose scratch area starts as a copy of dest, cover them
C33_InOutBytesKept ==
  FinalizedWithScratch =>
    \A a \in Unwritten : Covering(a, {OUT}) = {} => task.mem[a] = entry.mem[a]

\* a syscall that failed without the kernel writing anything: the scratch
\* area of an OUT buffer, never initialised, is copied over the buffer
C33_StaleScratchWrittenBack ==
  /\ FinalizedWithScratch /\ kw = 0 /\ task.finalized = "WRITE_BACK"
  /\ RegSigned(inp.arch, prev.regs.result) < 0
  /\ \E i \in 1..Len(FinalParams) :
        /\ FinalParams[i].mode = OUT
        /\ task.mem[FinalParams[i].dest] = entry.mem[FinalParams[i].scratch]
        /\ task.mem[FinalParams[i].dest] # entry.mem[FinalParams[i].dest]
\* an IN_OUT buffer the kernel left alone is as it was
C33_InOutUntouched ==
  /\ FinalizedWithScratch /\ kw = 0 /\ task.finalized = "WRITE_BACK"
  /\ \E i \in 1..Len(FinalParams) :
        /\ FinalParams[i].mode = IN_OUT
        /\ FinalParams[i].dest \in Unwritten
        /\ Covering(FinalParams[i].dest, {OUT}) = {}
(* ---------------------------------------------------------------------- *)
(* C34: restoration before the SyscallState is destroyed                   *)
(* ---------------------------------------------------------------------- *)
\* the exit hook or the restart hook has destroyed a SyscallState for which
\* done_preparing had enabled scratch
DestroyedWithScratch ==
  /\ pc = "done" /\ hook \in {"exit", "restart"} /\ task.ok
  /\ prev.has_state /\ prev.st.scratch_enabled /\ ~task.has_state
\* the redirected registers and pointer slots hold their entry values
PointersAtEntry ==
  \A i \in 1..Len(FinalParams) :
     /\ FinalParams[i].ptr_in_reg # 0 =>
          task.regs.arg[FinalParams[i].ptr_in_reg]
            = entry.regs.arg[FinalParams[i].ptr_in_reg]
     /\ FinalParams[i].ptr_in_memory # Null =>
          task.mem[FinalParams[i].ptr_in_memory]
            = entry.mem[FinalParams[i].ptr_in_memory]
\* an argument register of the task points into its scratch region
RegisterInScratch == \E r \in 1..6 : InScratch(task.regs.arg[r])

\* C34 as stated: whenever the exit hook or the restart hook destroys a
\* SyscallState for which scratch was enabled, for an interrupted syscall
\* of any kind, the redirected registers and pointer slots hold their
\* entry values again and no register points into scratch.
C34_RestoredBeforeDestroyed == DestroyedWithScratch => (PointersAtEntry /\ ~RegisterInScratch)

\* what the code does: the exit hook's finalized syscalls, and the restart
\* hook for nanosleep, restore before they destroy
C34_RestoredWhenFinalized ==
  (DestroyedWithScratch /\ task.finalized # "none") => (PointersAtEntry /\ ~RegisterInScratch)

\* an interrupted read: the restart hook destroys the state and arg2 still
\* points into scratch
C34_RestartLeavesScratch ==
  /\ DestroyedWithScratch /\ hook = "restart" /\ inp.no = "read"
  /\ InScratch(task.regs.arg[2]) /\ ~InScratch(entry.regs.arg[2])
\* an interrupted nanosleep: restored
C34_RestartNanosleep ==
  /\ DestroyedWithScratch /\ hook = "restart" /\ inp.no = "nanosleep"
  /\ PointersAtEntry /\ task.regs.arg[2] = inp.args[2]
\* the exit hook restores whenever it destroys a state with scratch
C34_ExitRestores ==
  (DestroyedWithScratch /\ hook = "exit") => (PointersAtEntry /\ ~RegisterInScratch)
(* ---------------------------------------------------------------------- *)
(* C35: every registered parameter is finalized                            *)
(* ---------------------------------------------------------------------- *)
\* the exit hook has run for a syscall whose preparer registered at least
\* one parameter, with no expect_errno and no syscallbuf record
ExitWithParams ==
  /\ pc = "done" /\ hook = "exit" /\ prev.ok /\ ~inp.desched
  /\ inp.no # SyscallNegative
  /\ prev.has_state /\ prev.st.expect_errno = 0
  /\ Len(prev.st.param_list) >= 1
\* process_syscall_results ran to its end, or stopped the recording itself
RanFinalizer ==
  \/ task.ok /\ task.finalized # "none"
  \/ ~task.ok /\ \A write_back \in BOOLEAN : ~process_syscall_results(prev, write_back).ok

\* C35 as stated: the exit hook finalizes with process_syscall_results
\* every syscall whose preparer registered a memory parameter, readlink
\* included, unless expect_errno is set or a syscallbuf record is present.
C35_RegisteredThenFinalized == ExitWithParams => RanFinalizer

\* what the code does: so it is for every syscall but readlink
C35_ExceptReadlink == (ExitWithParams /\ inp.no # "readlink") => RanFinalizer

\* a readlink that filled its buffer: the exit hook ends without the
\* finalizer, nothing is recorded for the buffer
C35_ReadlinkUnfinalized ==
  /\ ExitWithParams /\ inp.no = "readlink" /\ task.ok
  /\ prev.regs.result = 3 /\ kw > 0
  /\ task.finalized = "none" /\ task.trace = << >> /\ ~task.has_state
\* a readlink the exit hook takes for a syscall it does not know
C35_ReadlinkRejected ==
  /\ ExitWithParams /\ inp.no = "readlink" /\ ~task.ok
  /\ process_syscall_results(prev, TRUE).ok
\* a read, finalized
C35_ReadFinalized ==
  /\ ExitWithParams /\ inp.no = "read" /\ task.ok /\ task.finalized = "WRITE_BACK"
  /\ Len(task.trace) >= 1
(* ---------------------------------------------------------------------- *)
(* C36: the finalizer's precondition                                       *)
(* ---------------------------------------------------------------------- *)
\* the syscalls whose exit case is process_syscall_results
FinalizedAtExit ==
  {"accept", "accept4", "fcntl", "fcntl64", "futex", "ioctl", "ipc", "prctl", "pread64",
   "preadv", "quotactl", "read", "readv", "recvfrom", "recvmsg", "recvmmsg", "sendmmsg",
   "socketcall", "nanosleep"}
\* the syscall has returned and the hook that runs next calls
\* process_syscall_results: the exit hook, or the restart hook
ExitCallsFinalizer ==
  /\ ~inp.desched /\ inp.no \in FinalizedAtExit
  /\ task.has_state => task.st.expect_errno = 0
RestartCallsFinalizer ==
  inp.no = "nanosleep" /\ task.regs.result = Neg(inp.arch, ERESTARTSYS)

\* C36 (the finalizer's precondition): when a syscall has returned and the
\* exit hook or the restart hook is about to call process_syscall_results,
\* the task has a SyscallState with preparation_done set, whichever path
\* the preparer took and however often it ran.
C36_PreparedBeforeFinalized ==
  (pc = "exit" /\ task.ok /\ (ExitCallsFinalizer \/ RestartCallsFinalizer)) =>
    (task.has_state /\ task.st.preparation_done)

\* a sendmmsg with MSG_DONTWAIT, whose preparer ran twice, is about to be
\* finalized
C36_Witness ==
  /\ pc = "exit" /\ task.ok /\ ExitCallsFinalizer
  /\ inp.no = "sendmmsg" /\ HasBit(inp.args[4], MSG_DONTWAIT)
  /\ hook = "prepare_again"
  /\ task.st.preparation_done /\ Len(task.st.param_list) = 1
\* an interrupted nanosleep is about to be finalized by the restart hook
C36_WitnessRestart ==
  /\ pc = "exit" /\ task.ok /\ RestartCallsFinalizer /\ task.st.preparation_done
\* a syscall the preparer left without done_preparing: its exit case does
\* not call the finalizer
C36_WitnessUnprepared ==
  /\ pc = "exit" /\ task.ok /\ task.has_state /\ ~task.st.preparation_done
  /\ inp.no \in {"clone", "write", "readlink", "mmap"}

(* ---------------------------------------------------------------------- *)
(* C37: scratch areas lie inside the scratch region, also for sizes near    *)
(* the top of the word range                                                *)
(* ---------------------------------------------------------------------- *)
\* the preparer has run and done_preparing enabled scratch
ScratchEnabled == pc = "kernel" /\ task.has_state /\ task.ok /\ task.st.scratch_enabled

\* n rounded up to a multiple of 8, without a word width
AlignedSize(n) == ((n + Align - 1) \div Align) * Align

\* the sum of the 8-aligned max_sizes of the redirected parameters from i on
RECURSIVE SumAligned(_, _)
SumAligned(list, i) ==
  IF i > Len(list) THEN 0
  ELSE (IF list[i].mode # IN_OUT_NO_SCRATCH
        THEN AlignedSize(list[i].num_bytes.max_size) ELSE 0)
       + SumAligned(list, i + 1)

\* the scratch area of parameter i lies inside [scratch_ptr, scratch_ptr + scratch_size)
AreaInsideRegion(i) ==
  /\ task.st.param_list[i].scratch >= task.scratch_ptr
  /\ task.st.param_list[i].scratch + task.st.param_list[i].num_bytes.max_size
       <= task.scratch_ptr + ScratchSize

\* C37 (as stated): whenever done_preparing enabled scratch, every redirected
\* parameter's scratch area lies inside the task's scratch region and the
\* cursor's distance from the base is the sum of the 8-aligned max_sizes
C37_AreasInsideRegion ==
  ScratchEnabled =>
    /\ \A i \in 1..Len(task.st.param_list) :
         task.st.param_list[i].mode # IN_OUT_NO_SCRATCH => AreaInsideRegion(i)
    /\ task.st.scratch - task.scratch_ptr = SumAligned(task.st.param_list, 1)

\* C37: the areas lie inside the region and the distance is the sum whenever
\* the sum of the 8-aligned max_sizes stays below the word range
C37_InsideWithoutWrap ==
  (ScratchEnabled /\ task.scratch_ptr + SumAligned(task.st.param_list, 1) < Mod64) =>
    /\ \A i \in 1..Len(task.st.param_list) :
         task.st.param_list[i].mode # IN_OUT_NO_SCRATCH => AreaInsideRegion(i)
    /\ task.st.scratch - task.scratch_ptr = SumAligned(task.st.param_list, 1)

\* C37: a read of 2^64 - 4 bytes has scratch enabled: the cursor wrapped
\* around to the base, the buffer register points at scratch
C37_WrappedEnabled ==
  /\ ScratchEnabled /\ inp.no = "read"
  /\ Len(task.st.param_list) = 1
  /\ task.st.param_list[1].num_bytes.max_size = Mod64 - 4
  /\ task.st.scratch = task.scratch_ptr
  /\ task.regs.arg[2] = task.scratch_ptr

\* C37: a read whose buffer fits has scratch enabled with its area inside
C37_FittingEnabled ==
  /\ ScratchEnabled /\ inp.no = "read"
  /\ Len(task.st.param_list) = 1
  /\ task.st.param_list[1].num_bytes.max_size = ScratchSize
  /\ AreaInsideRegion(1)


(* ---------------------------------------------------------------------- *)
(* C38: the scratch cursor and the layout of the scratch areas             *)
(* ---------------------------------------------------------------------- *)
\* parameter i was given a scratch area
Redirected(i) == task.st.param_list[i].mode # IN_OUT_NO_SCRATCH

\* the first address after the scratch area of parameter i, without a word width
AreaEnd(i) == task.st.param_list[i].scratch + task.st.param_list[i].num_bytes.max_size

\* the scratch areas are pairwise disjoint, in registration order, below the cursor
AreasLaidOut ==
  /\ \A i \in 1..Len(task.st.param_list) : \A j \in 1..Len(task.st.param_list) :
       (i < j /\ Redirected(i) /\ Redirected(j)) =>
         AreaEnd(i) <= task.st.param_list[j].scratch
  /\ \A i \in 1..Len(task.st.param_list) :
       Redirected(i) =>
         /\ task.st.param_list[i].scratch >= task.scratch_ptr
         /\ AreaEnd(i) <= task.st.scratch

\* C38 (as stated): after any sequence of registrations the cursor is a
\* multiple of 8 and at least scratch_base, and the scratch areas are
\* pairwise disjoint and laid out in registration order below the cursor
C38_CursorAndLayout ==
  task.has_state =>
    /\ task.st.scratch % Align = 0
    /\ task.st.scratch >= task.scratch_ptr
    /\ AreasLaidOut

\* C38: the cursor is always a multiple of 8
C38_CursorAligned == task.has_state => task.st.scratch % Align = 0

\* C38: the cursor is at least scratch_base and the areas are laid out in
\* order whenever the sum of the 8-aligned max_sizes stays below the word range
C38_LayoutWithoutWrap ==
  (task.has_state /\ task.scratch_ptr + SumAligned(task.st.param_list, 1) < Mod64) =>
    /\ task.st.scratch = task.scratch_ptr + SumAligned(task.st.param_list, 1)
    /\ AreasLaidOut

\* C38: a read of 2^64 - 8 bytes was registered: the cursor is below the base
C38_CursorBelowBase ==
  /\ task.has_state /\ inp.no = "read"
  /\ Len(task.st.param_list) = 1 /\ Redirected(1)
  /\ task.st.param_list[1].num_bytes.max_size = Mod64 - Align
  /\ task.st.scratch < task.scratch_ptr

\* C38: two parameters were given scratch areas, the second after the first
C38_TwoAreas ==
  /\ task.has_state /\ Len(task.st.param_list) >= 2
  /\ Redirected(1) /\ Redirected(2)
  /\ task.st.param_list[1].num_bytes.max_size > 0
  /\ task.st.param_list[2].scratch > task.st.param_list[1].scratch
  /\ AreasLaidOut


(* ---------------------------------------------------------------------- *)
(* C39: the memory records suffice to replay the finalizer's effect         *)
(* ---------------------------------------------------------------------- *)
\* the raw-memory records the last hook wrote to the trace
NewRecords == SubSeq(task.trace, Len(prev.trace) + 1, Len(task.trace))

\* record r holds a byte for address a
RecordCovers(r, a) == a >= r.addr /\ a < r.addr + Len(r.data)

\* a memory image after the records from i on were applied in order
RECURSIVE Replay(_, _, _)
Replay(mem, recs, i) ==
  IF i > Len(recs) THEN mem
  ELSE Replay([a \in Addr |-> IF RecordCovers(recs[i], a)
                              THEN recs[i].data[a - recs[i].addr + 1] ELSE mem[a]],
              recs, i + 1)

\* the mapped addresses inside a registered dest buffer
DestAddrs == {a \in Addr : Mapped(a) /\ Covering(a, {IN_ONLY, OUT, IN_OUT, IN_OUT_NO_SCRATCH}) # {}}

\* the replay of the records on the memory at syscall entry agrees with the
\* tracee's memory at address a
Reproduced(a) == Replay(entry.mem, NewRecords, 1)[a] = task.mem[a]

\* every byte of a dest buffer that the kernel stored into directly lies
\* within a recorded range
DirectWritesRecorded ==
  \A a \in DestAddrs :
     prev.mem[a] # AfterEnterHook.mem[a] =>
       \E n \in 1..Len(NewRecords) : RecordCovers(NewRecords[n], a)

\* two registered parameters have overlapping dest buffers
DestsAlias ==
  \E i \in 1..Len(FinalParams) : \E j \in 1..Len(FinalParams) :
     /\ i < j
     /\ FinalParams[i].dest < FinalParams[j].dest + FinalParams[j].num_bytes.max_size
     /\ FinalParams[j].dest < FinalParams[i].dest + FinalParams[i].num_bytes.max_size

\* the replay reproduces the dest buffers whatever the kernel did (it does
\* not: without scratch, a byte the kernel stores beyond the size the
\* syscall reports is in no record)
ReplayUnconditional == Finalized => \A a \in DestAddrs : Reproduced(a)

C39_WitnessNoScratch ==
  /\ Finalized /\ DirectWritesRecorded /\ ~prev.st.scratch_enabled
  /\ kw > 0
  /\ \E a \in DestAddrs : task.mem[a] # entry.mem[a] /\ Reproduced(a)

\* C39: the same with two dest buffers that alias, both written back
C39_WitnessAlias ==
  /\ Finalized /\ DirectWritesRecorded /\ DestsAlias
  /\ \E a \in DestAddrs :
        /\ Cardinality(Covering(a, {OUT, IN_OUT})) >= 2
        /\ task.mem[a] # entry.mem[a] /\ Reproduced(a)

\* C39: aliasing dest buffers written back from scratch, the later over the
\* earlier
C39_WitnessAliasScratch ==
  /\ Finalized /\ DirectWritesRecorded /\ DestsAlias /\ prev.st.scratch_enabled
  /\ task.finalized = "WRITE_BACK"
  /\ \E a \in DestAddrs :
        /\ Cardinality(Covering(a, {OUT, IN_OUT})) >= 2
        /\ task.mem[a] # entry.mem[a] /\ Reproduced(a)

====
